---- MODULE Spec2Model ----
(***************************************************************************)
(* SARVAI backend: the embedding service with its LRU cache, and the       *)
(* memory store with the hierarchical memory manager (consolidation,       *)
(* forgetting, importance scoring).                                        *)
(*                                                                         *)
(* Units.  Timestamps are whole days.  Vector components are thousandths   *)
(* (600 stands for 0.6).  A vector is kept as [dim, body]: body holds the  *)
(* leading components and every component after them is zero, so that a    *)
(* right-padding with zeros changes dim and nothing else.  Importance is   *)
(* kept in units of 10^-9.                                                 *)
(***************************************************************************)
EXTENDS Integers, Sequences, FiniteSets, TLC

VARIABLES
    cache,            \* EmbeddingCache._cache: key -> embedding
    access_order,     \* EmbeddingCache._access_order: keys, oldest first
    stats,            \* EmbeddingService.stats
    cache_enabled,    \* EmbeddingService.cache_enabled
    embedding_model,  \* settings.EMBEDDING_MODEL (fixed at start-up)
    model_calls,      \* number of calls of self._model.encode so far
    call,             \* the last call made on the service or the cache
    ret,              \* what that call returned
    use_order,        \* history: keys by their last use, oldest first
    now,              \* datetime.utcnow(), in days
    memories,         \* committed rows of table memories
    embeddings,       \* committed rows of table embeddings (the chunks)
    memory_access,    \* committed rows of table memory_access
    summaries,        \* committed rows of table memory_summaries
    next_id,          \* stands for uuid4: ids are never reused
    tx,               \* the open transaction of a create_memory in flight
    op,               \* the last store operation and its outcome
    preferences,      \* committed rows of table user_preferences
    conversations,    \* committed rows of table conversations
    messages,         \* committed rows of table messages, in insertion order
    sse,              \* the event generator of a streaming ask in flight
    bm25_ranker,      \* HybridSearchEngine.bm25_ranker, shared by all requests
    searches,         \* the calls of Retriever.retrieve in flight, by request
    web_sources,      \* committed rows of table web_sources
    web_calls,        \* history: calls made to the web search adapter
    jobs              \* the calls of consolidate_memories in flight, by task

embVars   == <<cache, access_order, stats, cache_enabled, embedding_model,
               model_calls>>
callVars  == <<call, ret, use_order>>
storeVars == <<now, memories, embeddings, memory_access, summaries, next_id,
               tx, op>>
chatVars  == <<preferences, conversations, messages, sse>>
taskVars  == <<bm25_ranker, searches, web_sources, web_calls, jobs>>
vars      == <<embVars, callVars, storeVars, chatVars, taskVars>>

None   == "None"

\* ---------------------------------------------------------------- bounds
max_size    == 2   \* EmbeddingCache(max_size): capacity used in the model
MaxRequests == 2   \* calls of the embedding service in one behaviour
MaxBatch    == 2   \* longest list handed to embed_batch

\* ------------------------------------------------------ program constants
TargetDim == 512   \* target_dim default of embed_text / embed_batch
ModelDim  == 384   \* output width of the sentence-transformer
VectorDim == 512   \* Column(Vector(512))

\* ------------------------------------------------------------------ texts
\* A text is a sequence of characters.
T_hi    == <<"h", "i">>
T_Hi    == <<"H", "i">>
T_hi_sp == <<"h", "i", " ">>
T_yo    == <<"y", "o">>
Texts   == {T_hi, T_Hi, T_hi_sp, T_yo}

\* the texts handed to the embedding service
EmbedTexts == {T_hi, T_Hi, T_yo}

\* str.lower() on one character
LowerChar(c) == IF c = "H" THEN "h" ELSE c

LowerText(text) == [i \in 1..Len(text) |-> LowerChar(text[i])]

\* str.split(): the maximal runs of non-blank characters
Blanks == {" ", "\n"}

\* the first blank at or after position i, or the position after the text
NextBlank(text, i) ==
    IF \E j \in i..Len(text) : text[j] \in Blanks
    THEN CHOOSE j \in i..Len(text) :
             /\ text[j] \in Blanks
             /\ \A k \in i..(j - 1) : text[k] \notin Blanks
    ELSE Len(text) + 1

RECURSIVE SplitFrom(_, _)
SplitFrom(text, i) ==
    IF i > Len(text) THEN <<>>
    ELSE IF text[i] \in Blanks THEN SplitFrom(text, i + 1)
    ELSE <<SubSeq(text, i, NextBlank(text, i) - 1)>>
         \o SplitFrom(text, NextBlank(text, i))

Split(text) == SplitFrom(text, 1)

\* " ".join(words)
RECURSIVE Join(_)
Join(words) ==
    IF words = <<>> THEN <<>>
    ELSE IF Len(words) = 1 THEN words[1]
    ELSE words[1] \o <<" ">> \o Join(Tail(words))

\* SemanticDeduplicator._simple_hash; md5 is taken as injective, so the hash
\* of a text is its normalized form.
simple_hash(text) == Join(Split(LowerText(text)))

\* ---------------------------------------------------------------- vectors
Vec(d, b) == [dim |-> d, body |-> b]

\* np.concatenate([embedding, zeros(target_dim - len)]) when len < target_dim
PadTo(v, target_dim) ==
    IF v.dim < target_dim THEN Vec(target_dim, v.body) ELSE v

\* The sentence-transformer, an external collaborator.  Its tokenizer splits
\* on blanks; an uncased model lowercases first, a cased one does not.
Models == {"uncased", "cased"}

EncoderTable(tokens) ==
    CASE tokens = <<T_hi>> -> <<600, 800>>
      [] tokens = <<T_Hi>> -> <<800, 600>>
      [] tokens = <<T_yo>> -> <<1000, 0>>
      [] OTHER             -> <<0, 1000>>

ModelEncode(model, text) ==
    Vec(ModelDim,
        EncoderTable(Split(IF model = "uncased" THEN LowerText(text) ELSE text)))

\* ---------------------------------------------------------- EmbeddingCache
\* sha256 is taken as injective: the key is the model tag and the text.
make_key(text, model) == <<model, text>>

InSeq(seq, x) == \E i \in 1..Len(seq) : seq[i] = x

\* list.remove(x): drops the first occurrence
RECURSIVE RemoveFirst(_, _)
RemoveFirst(seq, x) ==
    IF seq = <<>> THEN <<>>
    ELSE IF Head(seq) = x THEN Tail(seq)
    ELSE <<Head(seq)>> \o RemoveFirst(Tail(seq), x)

EmptyCache == [k \in {} |-> None]

\* cache_get without the move to the end of _access_order
cache_get_no_move(c, text, model) ==
    LET key == make_key(text, model) IN
    IF key \in DOMAIN c.cache
    THEN [hit |-> TRUE, value |-> c.cache[key], cache |-> c.cache,
          access_order |-> c.access_order]
    ELSE [hit |-> FALSE, value |-> None, cache |-> c.cache,
          access_order |-> c.access_order]

\* c is [cache, access_order]; the result adds hit and the value returned
\* (hit = FALSE stands for the return value None).
cache_get(c, text, model) ==
    LET key == make_key(text, model) IN
    IF key \in DOMAIN c.cache
    THEN [hit          |-> TRUE,
          value        |-> c.cache[key],
          cache        |-> c.cache,
          access_order |-> Append(IF InSeq(c.access_order, key)
                                  THEN RemoveFirst(c.access_order, key)
                                  ELSE c.access_order, key)]
    ELSE [hit |-> FALSE, value |-> None, cache |-> c.cache,
          access_order |-> c.access_order]

cache_set(c, text, embedding, model) ==
    LET key    == make_key(text, model)
        evict  == Cardinality(DOMAIN c.cache) >= max_size /\ key \notin DOMAIN c.cache
        oldest == Head(c.access_order)
        order1 == IF evict THEN Tail(c.access_order) ELSE c.access_order
        keys1  == IF evict THEN DOMAIN c.cache \ {oldest} ELSE DOMAIN c.cache
        order2 == IF InSeq(order1, key) THEN order1 ELSE Append(order1, key)
    IN  [cache        |-> [k \in keys1 \cup {key} |->
                              IF k = key THEN embedding ELSE c.cache[k]],
         access_order |-> order2]

\* -------------------------------------------------------- EmbeddingService
\* s is [cache, access_order, stats, model_calls].
Bump(st, field, n) == [st EXCEPT ![field] = @ + n]

WithCache(s, c) == [s EXCEPT !.cache = c.cache, !.access_order = c.access_order]

\* embed_text without the embedding_cache.set of the fresh embedding
embed_text_no_store(s, text, use_cache, enabled, model, encode_ok) ==
    LET s1     == [s EXCEPT !.stats = Bump(@, "total_requests", 1)]
        cached == use_cache /\ enabled
        got    == cache_get(s1, text, model)
    IN  IF cached /\ got.hit
        THEN [s   |-> [WithCache(s1, got) EXCEPT !.stats = Bump(@, "cache_hits", 1)],
              raised |-> FALSE, value |-> got.value]
        ELSE
          LET s2 == IF cached
                    THEN [s1 EXCEPT !.stats = Bump(@, "cache_misses", 1)]
                    ELSE s1
              s3 == [s2 EXCEPT !.model_calls = @ + 1]
          IN  IF encode_ok
              THEN [s   |-> [s3 EXCEPT !.stats = Bump(@, "total_texts_embedded", 1)],
                    raised |-> FALSE,
                    value |-> PadTo(ModelEncode(model, text), TargetDim)]
              ELSE [s |-> s3, raised |-> TRUE, value |-> None]

embed_text(s, text, use_cache, enabled, model, encode_ok) ==
    LET s1     == [s EXCEPT !.stats = Bump(@, "total_requests", 1)]
        cached == use_cache /\ enabled
        got    == cache_get(s1, text, model)
    IN  IF cached /\ got.hit
        THEN [s   |-> [WithCache(s1, got) EXCEPT !.stats = Bump(@, "cache_hits", 1)],
              raised |-> FALSE, value |-> got.value]
        ELSE
          LET s2 == IF cached
                    THEN [WithCache(s1, got) EXCEPT !.stats = Bump(@, "cache_misses", 1)]
                    ELSE s1
              s3 == [s2 EXCEPT !.model_calls = @ + 1]
              embedding_list == PadTo(ModelEncode(model, text), TargetDim)
              s4 == IF cached
                    THEN WithCache(s3, cache_set(s3, text, embedding_list, model))
                    ELSE s3
          IN  IF encode_ok
              THEN [s   |-> [s4 EXCEPT !.stats = Bump(@, "total_texts_embedded", 1)],
                    raised |-> FALSE, value |-> embedding_list]
              ELSE [s |-> s3, raised |-> TRUE, value |-> None]

\* SemanticDeduplicator.find_duplicates: acc is [unique_texts, index_mapping];
\* index_mapping[i] is the position in unique_texts of the i-th text.
RECURSIVE FindDuplicatesFrom(_, _, _)
FindDuplicatesFrom(texts, i, acc) ==
    IF i > Len(texts) THEN acc
    ELSE LET text_hash == simple_hash(texts[i])
             seen == {j \in 1..Len(acc.unique_texts) :
                         simple_hash(acc.unique_texts[j]) = text_hash}
         IN  FindDuplicatesFrom(texts, i + 1,
               IF seen # {}
               THEN [acc EXCEPT !.index_mapping = Append(@, CHOOSE j \in seen : TRUE)]
               ELSE [unique_texts  |-> Append(acc.unique_texts, texts[i]),
                     index_mapping |-> Append(acc.index_mapping,
                                              Len(acc.unique_texts) + 1)])

find_duplicates(texts) ==
    FindDuplicatesFrom(texts, 1, [unique_texts |-> <<>>, index_mapping |-> <<>>])

\* SemanticDeduplicator.restore_order
restore_order(unique_embeddings, index_mapping) ==
    [i \in 1..Len(index_mapping) |-> unique_embeddings[index_mapping[i]]]

Min(a, b) == IF a < b THEN a ELSE b

RECURSIVE SumLen(_)
SumLen(texts) == IF texts = <<>> THEN 0 ELSE Len(Head(texts)) + SumLen(Tail(texts))

\* BatchProcessor.optimize_batch_size (max_batch_size = 32)
optimize_batch_size(texts) ==
    IF texts = <<>> THEN 32
    ELSE LET avg_text_length == SumLen(texts) \div Len(texts) IN
         IF avg_text_length > 2000 THEN Min(8, Len(texts))
         ELSE IF avg_text_length > 1000 THEN Min(16, Len(texts))
         ELSE Min(32, Len(texts))

\* BatchProcessor.create_batches: consecutive slices of batch_size texts
RECURSIVE BatchesFrom(_, _, _)
BatchesFrom(texts, i, batch_size) ==
    IF i > Len(texts) THEN <<>>
    ELSE <<SubSeq(texts, i, Min(i + batch_size - 1, Len(texts)))>>
         \o BatchesFrom(texts, i + batch_size, batch_size)

create_batches(texts) == BatchesFrom(texts, 1, optimize_batch_size(texts))

\* one self._model.encode(batch) with the padding that follows it
EncodeBatch(batch, model, target_dim) ==
    [i \in 1..Len(batch) |-> PadTo(ModelEncode(model, batch[i]), target_dim)]

RECURSIVE Flatten(_)
Flatten(seqs) == IF seqs = <<>> THEN <<>> ELSE Head(seqs) \o Flatten(Tail(seqs))

\* Step 1 of embed_batch: acc is [cache, access_order, results,
\* uncached_texts, uncached_indices, hits].
RECURSIVE BatchLookup(_, _, _, _)
BatchLookup(acc, texts, i, model) ==
    IF i > Len(texts) THEN acc
    ELSE LET got == cache_get(acc, texts[i], model) IN
         BatchLookup(
           IF got.hit
           THEN [acc EXCEPT !.access_order = got.access_order,
                            !.results = Append(@, got.value),
                            !.hits = @ + 1]
           ELSE [acc EXCEPT !.results = Append(@, None),
                            !.uncached_texts = Append(@, texts[i]),
                            !.uncached_indices = Append(@, i)],
           texts, i + 1, model)

\* Step 5 of embed_batch: cache every (text, embedding) pair in order
RECURSIVE CacheAll(_, _, _, _, _)
CacheAll(c, texts, embs, i, model) ==
    IF i > Len(texts) \/ i > Len(embs) THEN c
    ELSE CacheAll(cache_set(c, texts[i], embs[i], model), texts, embs, i + 1, model)

\* Step 6 of embed_batch: results[idx] = embedding
Merge(results, uncached_indices, embs) ==
    [i \in 1..Len(results) |->
        IF \E j \in 1..Min(Len(uncached_indices), Len(embs)) : uncached_indices[j] = i
        THEN embs[CHOOSE j \in 1..Len(uncached_indices) : uncached_indices[j] = i]
        ELSE results[i]]

embed_batch(s, texts, use_cache, deduplicate, enabled, model, encode_ok) ==
    IF texts = <<>> THEN [s |-> s, raised |-> FALSE, value |-> <<>>]
    ELSE
    LET s1     == [s EXCEPT !.stats = Bump(@, "total_requests", 1)]
        cached == use_cache /\ enabled
        look   == IF cached
                  THEN BatchLookup([cache |-> s1.cache,
                                    access_order |-> s1.access_order,
                                    results |-> <<>>, uncached_texts |-> <<>>,
                                    uncached_indices |-> <<>>, hits |-> 0],
                                   texts, 1, model)
                  ELSE [cache |-> s1.cache, access_order |-> s1.access_order,
                        results |-> [i \in 1..Len(texts) |-> None],
                        uncached_texts |-> texts,
                        uncached_indices |-> [i \in 1..Len(texts) |-> i],
                        hits |-> 0]
        s2     == [WithCache(s1, look) EXCEPT
                     !.stats = Bump(Bump(@, "cache_hits", look.hits),
                                    "cache_misses",
                                    IF cached THEN Len(look.uncached_texts) ELSE 0)]
        dedup  == deduplicate /\ Len(look.uncached_texts) > 1
        found  == find_duplicates(look.uncached_texts)
        texts_to_embed == IF dedup THEN found.unique_texts ELSE look.uncached_texts
        batches  == create_batches(texts_to_embed)
        encoded  == Flatten([b \in 1..Len(batches) |->
                                EncodeBatch(batches[b], model, TargetDim)])
        all_embeddings == IF dedup THEN restore_order(encoded, found.index_mapping)
                          ELSE encoded
        s3     == [s2 EXCEPT !.model_calls = @ + Len(batches)]
        s4     == IF cached
                  THEN WithCache(s3, CacheAll(s3, look.uncached_texts,
                                              all_embeddings, 1, model))
                  ELSE s3
    IN  IF look.uncached_texts = <<>>
        THEN [s |-> s2, raised |-> FALSE, value |-> look.results]
        ELSE IF encode_ok
        THEN [s   |-> [s4 EXCEPT !.stats = Bump(@, "total_texts_embedded",
                                                Len(look.uncached_texts))],
              raised |-> FALSE,
              value |-> Merge(look.results, look.uncached_indices, all_embeddings)]
        ELSE [s |-> [s2 EXCEPT !.model_calls = @ + 1], raised |-> TRUE,
              value |-> None]

\* ------------------------------------------------------------ initial state
ZeroStats == [total_requests |-> 0, cache_hits |-> 0, cache_misses |-> 0,
              total_texts_embedded |-> 0]

NoCall == [op |-> "none"]
NoRet  == [raised |-> FALSE, value |-> None]
NoOp   == [name |-> "none"]
NoTx   == [open |-> FALSE]

InitEmb ==
    /\ cache = EmptyCache
    /\ access_order = <<>>
    /\ stats = ZeroStats
    /\ cache_enabled = TRUE
    /\ embedding_model \in Models
    /\ model_calls = 0

InitCall ==
    /\ call = NoCall
    /\ ret = NoRet
    /\ use_order = <<>>

InitStore ==
    /\ now = 0
    /\ memories = {}
    /\ embeddings = {}
    /\ memory_access = {}
    /\ summaries = {}
    /\ next_id = 1
    /\ tx = NoTx
    /\ op = NoOp

\* no stream in flight
NoStream == [pc |-> "none", request |-> 0, served |-> 0]

InitChat ==
    /\ preferences = {}
    /\ conversations = {}
    /\ messages = <<>>
    /\ sse = NoStream

\* the requests and background tasks that may be in flight together
Tasks == {1, 2}

Idle == [pc |-> "idle"]

\* BM25Ranker.__init__
NewRanker == [corpus_texts |-> <<>>, corpus_ids |-> <<>>, is_fitted |-> FALSE]

InitTask ==
    /\ bm25_ranker = NewRanker
    /\ searches = [t \in Tasks |-> Idle]
    /\ web_sources = {}
    /\ web_calls = <<>>
    /\ jobs = [t \in Tasks |-> Idle]

Init == InitEmb /\ InitCall /\ InitStore /\ InitChat /\ InitTask

Svc == [cache |-> cache, access_order |-> access_order, stats |-> stats,
        model_calls |-> model_calls]

SetSvc(s) ==
    /\ cache' = s.cache
    /\ access_order' = s.access_order
    /\ stats' = s.stats
    /\ model_calls' = s.model_calls

\* --------------------------------------------- calls of the embedding service
SeqsUpTo(S, n) == UNION {[1..k -> S] : k \in 0..n}

BatchInputs == SeqsUpTo(EmbedTexts, MaxBatch)

\* No caller passes use_cache or deduplicate: both keep their default, True.
EmbedText(text, encode_ok) ==
    /\ stats.total_requests < MaxRequests
    /\ LET r == embed_text(Svc, text, TRUE, cache_enabled, embedding_model,
                           encode_ok)
       IN  /\ SetSvc(r.s)
           /\ ret' = [raised |-> r.raised, value |-> r.value]
    /\ call' = [op |-> "embed_text", text |-> text,
                repeat |-> /\ call.op = "embed_text"
                           /\ call.text = text
                           /\ ~ret.raised]
    /\ UNCHANGED <<cache_enabled, embedding_model, use_order, storeVars, chatVars, taskVars>>

\* The call record of a batch also keeps what embed_text would have returned
\* for each entry in the state the batch started from.
EmbedBatch(texts, encode_ok) ==
    /\ stats.total_requests < MaxRequests
    /\ LET r == embed_batch(Svc, texts, TRUE, TRUE, cache_enabled,
                            embedding_model, encode_ok)
       IN  /\ SetSvc(r.s)
           /\ ret' = [raised |-> r.raised, value |-> r.value]
    /\ call' = [op |-> "embed_batch", texts |-> texts,
                single |-> [i \in 1..Len(texts) |->
                              embed_text(Svc, texts[i], TRUE, cache_enabled,
                                         embedding_model, TRUE).value]]
    /\ UNCHANGED <<cache_enabled, embedding_model, use_order, storeVars, chatVars, taskVars>>

\* EmbeddingService.enable_cache
EnableCache(enabled) ==
    /\ cache_enabled' = enabled
    /\ call' = [op |-> "enable_cache"]
    /\ ret' = NoRet
    /\ UNCHANGED <<cache, access_order, stats, embedding_model, model_calls,
                   use_order, storeVars, chatVars, taskVars>>

\* EmbeddingService.clear_cache -> EmbeddingCache.clear
ClearCache ==
    /\ cache' = EmptyCache
    /\ access_order' = <<>>
    /\ call' = [op |-> "clear_cache"]
    /\ ret' = NoRet
    /\ UNCHANGED <<stats, cache_enabled, embedding_model, model_calls,
                   use_order, storeVars, chatVars, taskVars>>

NextEmbed ==
    \/ \E text \in EmbedTexts, encode_ok \in BOOLEAN :
          EmbedText(text, encode_ok)
    \/ \E texts \in BatchInputs, encode_ok \in BOOLEAN :
          EmbedBatch(texts, encode_ok)
    \/ \E enabled \in BOOLEAN : EnableCache(enabled)
    \/ ClearCache

SpecEmbed == Init /\ [][NextEmbed]_vars

\* ----------------------------------------------- direct calls of the cache
\* Embeddings handed to set by the callers.
SetValues == {Vec(TargetDim, <<600, 800>>), Vec(TargetDim, <<1000, 0>>)}

MoveToEnd(seq, key) == Append(SelectSeq(seq, LAMBDA k : k # key), key)

CacheGet(text) ==
    LET got == cache_get([cache |-> cache, access_order |-> access_order], text,
                         embedding_model)
    IN  /\ cache' = got.cache
        /\ access_order' = got.access_order
        /\ call' = [op |-> "get", text |-> text]
        /\ ret' = [raised |-> FALSE, hit |-> got.hit, value |-> got.value]
        /\ use_order' = IF got.hit
                        THEN MoveToEnd(use_order, make_key(text, embedding_model))
                        ELSE use_order
        /\ UNCHANGED <<stats, cache_enabled, embedding_model, model_calls,
                       storeVars, chatVars, taskVars>>

CacheSet(text, embedding) ==
    LET put == cache_set([cache |-> cache, access_order |-> access_order], text,
                         embedding, embedding_model)
        key == make_key(text, embedding_model)
    IN  /\ cache' = put.cache
        /\ access_order' = put.access_order
        /\ call' = [op |-> "set", text |-> text]
        /\ ret' = [raised |-> FALSE, value |-> None,
                   evicted |-> DOMAIN cache \ DOMAIN put.cache,
                   after_hit |-> call.op = "get" /\ ret.hit]
        /\ use_order' = IF key \in DOMAIN cache THEN use_order
                        ELSE MoveToEnd(use_order, key)
        /\ UNCHANGED <<stats, cache_enabled, embedding_model, model_calls,
                       storeVars, chatVars, taskVars>>

NextCache ==
    \/ \E text \in Texts : CacheGet(text)
    \/ \E text \in Texts, embedding \in SetValues : CacheSet(text, embedding)

SpecCache == Init /\ [][NextCache]_vars

\* ================================================================== store
\* ---------------------------------------------------------------- bounds
MaxIds == 2    \* memories created in a behaviour
MaxNow == 31   \* last day of a behaviour

\* ------------------------------------------------------ program constants
episodic_threshold_days      == 7
consolidation_threshold_days == 30
ConsolidationLimit           == 50          \* .limit(50)
min_importance_threshold     == 100000000   \* 0.1
ClipDim                      == 512         \* open_clip ViT-B-32

Users == {"u1", "u2"}

\* ----------------------------------------------------- fixed-point numerics
\* floor(10^6 * exp(-d / 30)), d = 0 .. 71
ExpNeg30Table ==
    <<
       1000000, 967216, 935506, 904837, 875173, 846481, 818730, 791889,
       765928, 740818, 716531, 693040, 670320, 648344, 627089, 606530,
       586646, 567413, 548811, 530819, 513417, 496585, 480305, 464559,
       449328, 434598, 420350, 406569, 393240, 380348, 367879, 355818,
       344153, 332871, 321958, 311403, 301194, 291319, 281769, 272531,
       263597, 254955, 246596, 238512, 230693, 223130, 215815, 208739,
       201896, 195277, 188875, 182683, 176694, 170901, 165298, 159879,
       154638, 149568, 144665, 139922, 135335, 130898, 126607, 122456,
       118441, 114558, 110803, 107170, 103657, 100258, 96971, 93792
    >>

\* floor(10^6 * exp(-d / 7)), d = 0 .. 71
ExpNeg7Table ==
    <<
       1000000, 866877, 751477, 651439, 564718, 489541, 424372, 367879,
       318906, 276453, 239651, 207748, 180092, 156118, 135335, 117319,
       101701, 88162, 76426, 66252, 57432, 49787, 43159, 37413,
       32433, 28115, 24372, 21128, 18315, 15877, 13763, 11931,
       10343, 8966, 7772, 6737, 5840, 5063, 4389, 3805,
       3298, 2859, 2478, 2148, 1862, 1614, 1399, 1213,
       1051, 911, 790, 685, 594, 514, 446, 386,
       335, 290, 252, 218, 189, 164, 142, 123,
       106, 92, 80, 69, 60, 52, 45, 39
    >>

\* floor(10^6 * log1p(c)), c = 0 .. 7
Log1pTable ==
    <<
       0, 693147, 1098612, 1386294, 1609437, 1791759, 1945910, 2079441
    >>

ExpNeg30(days) == ExpNeg30Table[days + 1]
ExpNeg7(days)  == ExpNeg7Table[days + 1]
Log1p(c)       == Log1pTable[c + 1]

\* timedelta.days of a difference of two timestamps
Days(delta) == delta

RECURSIVE SumSeq(_)
SumSeq(q) == IF q = <<>> THEN 0 ELSE Head(q) + SumSeq(Tail(q))

Dot(a, b) == SumSeq([i \in 1..Min(Len(a), Len(b)) |-> a[i] * b[i]])

\* type_weights, in millionths
\* no content type carries any weight
TypeWeightNone(content_type) == 0

TypeWeight(content_type) ==
    CASE content_type = "text"  -> 1000000
      [] content_type = "pdf"   -> 1200000
      [] content_type = "image" ->  900000
      [] content_type = "audio" -> 1100000
      [] content_type = "web"   ->  700000
      [] OTHER                  -> 1000000

\* calculate_score without the two access terms
calculate_score_no_access(memory, access_count, last_accessed, embedding_variance, today) ==
    LET age_days        == Days(today - memory.created_at)
        recency_score   == ExpNeg30(age_days)
        content_weight  == TypeWeight(memory.content_type)
        richness_score  == Min(embedding_variance, 1000000)
    IN  350 * recency_score + 150 * content_weight + 50 * richness_score

\* MemoryImportance.calculate_score, in units of 10^-9; last_accessed is <<>>
\* for None and <<day>> otherwise, embedding_variance is in millionths.
calculate_score(memory, access_count, last_accessed, embedding_variance, today) ==
    LET age_days        == Days(today - memory.created_at)
        recency_score   == ExpNeg30(age_days)
        frequency_score == Log1p(access_count)
        access_recency  == IF last_accessed = <<>> THEN 0
                           ELSE ExpNeg7(Days(today - last_accessed[1]))
        content_weight  == TypeWeight(memory.content_type)
        richness_score  == Min(embedding_variance, 1000000)
    IN  350 * recency_score + 25 * frequency_score + 200 * access_recency
        + 150 * content_weight + 50 * richness_score


\* ------------------------------------------------------------------- rows
MemoryIds == {m.id : m \in memories}

MemoryById(id) == CHOOSE m \in memories : m.id = id

ChunksOf(rows, id) == {e \in rows : e.memory_id = id}

AccessesOf(rows, id) == {a \in rows : a.memory_id = id}

MaxOf(S) == CHOOSE x \in S : \A y \in S : y <= x
MinOf(S) == CHOOSE x \in S : \A y \in S : x <= y

\* the elements of a set of numbers, ascending
RECURSIVE Ascending(_)
Ascending(S) == IF S = {} THEN <<>> ELSE <<MinOf(S)>> \o Ascending(S \ {MinOf(S)})

\* np.var over every component of the chunk embeddings, in millionths
EmbeddingVariance(chunks) ==
    LET idx == Ascending({e.chunk_index : e \in chunks})
        row(i) == CHOOSE e \in chunks : e.chunk_index = idx[i]
        count == SumSeq([i \in 1..Len(idx) |-> row(i).embedding.dim])
        total == SumSeq([i \in 1..Len(idx) |-> SumSeq(row(i).embedding.body)])
        squares == SumSeq([i \in 1..Len(idx) |->
                      Dot(row(i).embedding.body, row(i).embedding.body)])
    IN  IF Cardinality(chunks) > 1 /\ count > 0
        THEN squares \div count - (total * total) \div (count * count)
        ELSE 0

\* MemoryManager.get_memory_importance over the given tables
ImportanceIn(mems, chunk_rows, access_rows, memory_id, today) ==
    IF ~\E m \in mems : m.id = memory_id THEN 0
    ELSE LET memory   == CHOOSE m \in mems : m.id = memory_id
             accesses == AccessesOf(access_rows, memory_id)
         IN  calculate_score(
                 memory,
                 Cardinality(accesses),
                 IF accesses = {} THEN <<>>
                 ELSE <<MaxOf({a.accessed_at : a \in accesses})>>,
                 EmbeddingVariance(ChunksOf(chunk_rows, memory_id)),
                 today)

get_memory_importance(memory_id) ==
    ImportanceIn(memories, embeddings, memory_access, memory_id, now)

\* a delete that removes the memory row and leaves its access rows behind
delete_without_accesses(db, id) ==
    [memories      |-> {m \in db.memories : m.id # id},
     embeddings    |-> {e \in db.embeddings : e.memory_id # id},
     memory_access |-> db.memory_access]

\* session.delete(memory): the ORM cascade "all, delete-orphan" of
\* Memory.embeddings and Memory.accesses removes the child rows with it.
\* db is [memories, embeddings, memory_access].
delete_cascade(db, id) ==
    [memories      |-> {m \in db.memories : m.id # id},
     embeddings    |-> {e \in db.embeddings : e.memory_id # id},
     memory_access |-> {a \in db.memory_access : a.memory_id # id}]

Db == [memories |-> memories, embeddings |-> embeddings,
       memory_access |-> memory_access]

SetDb(db) ==
    /\ memories' = db.memories
    /\ embeddings' = db.embeddings
    /\ memory_access' = db.memory_access

\* a column that takes a vector of any width
accepts_any(embedding) == TRUE

\* the Vector(512) column refuses a vector of another width
column_accepts(embedding) == embedding.dim = VectorDim

\* ------------------------------------------------------------ classification
\* A content is kept by what classify_memory reads of it: whether one of the
\* textual temporal markers occurs, whether a personal marker occurs, and the
\* number of words.
DiaryContent  == [temporal |-> TRUE,  personal |-> TRUE,  words |-> 7]
ReportContent == [temporal |-> TRUE,  personal |-> FALSE, words |-> 700]
OcrContent    == [temporal |-> FALSE, personal |-> FALSE, words |-> 0]

\* MemoryManager.classify_memory.  The list temporal_markers ends with the
\* integer datetime.now().year, so `marker in content_lower` raises TypeError
\* as soon as no textual marker has matched.
classify_memory(memory) ==
    LET content   == memory.content
        is_short  == content.words < 100
    IN  IF memory.meta_memory_type # None
        THEN [raised |-> FALSE, value |-> memory.meta_memory_type]
        ELSE IF ~content.temporal
        THEN [raised |-> TRUE, value |-> None]
        ELSE IF (content.temporal /\ content.personal) \/ (is_short /\ content.personal)
        THEN [raised |-> FALSE, value |-> "episodic"]
        ELSE IF memory.content_type = "pdf" \/ content.words > 500
        THEN [raised |-> FALSE, value |-> "semantic"]
        ELSE [raised |-> FALSE, value |-> "episodic"]


\* --------------------------------------------------------------- creation
\* What the ingestion routes hand to create_memory: text and PDF uploads pass
\* their chunks as strings, the image route passes one dict with a
\* pre-computed embedding.
PrecomputedDims == {ClipDim, ModelDim}

TextChunk(text) == [precomputed |-> FALSE, text |-> text]

DictChunk(text, embedding) ==
    [precomputed |-> TRUE, text |-> text, embedding |-> embedding]

Uploads ==
    {[content_type |-> "text", content |-> DiaryContent,
      chunks |-> <<TextChunk(T_hi)>>],
     [content_type |-> "pdf", content |-> ReportContent,
      chunks |-> <<TextChunk(T_hi), TextChunk(T_yo)>>]}
    \cup {[content_type |-> "image", content |-> OcrContent,
           chunks |-> <<DictChunk(T_yo, Vec(d, <<0, 1000>>))>>] :
             d \in PrecomputedDims}

\* one pass of the loop of create_memory: a dict chunk brings its embedding,
\* a text chunk is embedded by embed_batch([chunk_text])[0]
FirstOf(embeddings_data) ==
    [s |-> embeddings_data.s, raised |-> embeddings_data.raised,
     value |-> IF embeddings_data.raised THEN <<>>
               ELSE <<embeddings_data.value[1]>>]

EmbedChunk(chunk, s, encode_ok) ==
    IF chunk.precomputed
    THEN [s |-> s, raised |-> FALSE, value |-> <<chunk.embedding>>]
    ELSE FirstOf(embed_batch(s, <<chunk.text>>, TRUE, TRUE, cache_enabled,
                             embedding_model, encode_ok))

Prepend(value, rest) == [rest EXCEPT !.value = value \o @]

\* the loop of create_memory over chunks[idx..]; the encoder fails at the
\* chunk numbered fail_at (counted from 1), never when fail_at is 0
RECURSIVE EmbedChunks(_, _, _, _)
RECURSIVE ChunksAfter(_, _, _, _)
EmbedChunks(chunks, idx, s, fail_at) ==
    IF idx > Len(chunks) THEN [s |-> s, raised |-> FALSE, value |-> <<>>]
    ELSE ChunksAfter(EmbedChunk(chunks[idx], s, fail_at # idx), chunks, idx,
                     fail_at)

ChunksAfter(one, chunks, idx, fail_at) ==
    IF one.raised THEN [s |-> one.s, raised |-> TRUE, value |-> <<>>]
    ELSE Prepend(one.value, EmbedChunks(chunks, idx + 1, one.s, fail_at))

EmbeddingRows(memory_id, chunks, vectors) ==
    {[memory_id |-> memory_id, chunk_index |-> i - 1,
      chunk_text |-> chunks[i].text, embedding |-> vectors[i]] :
        i \in 1..Len(chunks)}

\* ------------------------------------------------------- language model
\* LLMGenerator._fallback_response as its lines, each cut to its first
\* words; user_content are the lines of the last user message.  generate
\* returns it whenever the request to the model fails, and never raises.
fallback_response(user_content) ==
    <<<<"I", " ", "a", "p", "o", "l", "o", "g", "i", "z", "e">>,
      <<>>,
      <<"Y", "o", "u", "r", " ", "q", "u", "e", "s", "t", "i", "o", "n", ":", " ">> \o Head(user_content)>>
    \o Tail(user_content)
    \o <<<<>>,
         <<"P", "l", "e", "a", "s", "e", " ", "e", "n", "s", "u", "r", "e", ":">>,
         <<"1", ".", " ", "O", "l", "l", "a", "m", "a", " ", "i", "s", " ", "r", "u", "n", "n", "i", "n", "g">>,
         <<"2", ".", " ", "T", "h", "e", " ", "m", "o", "d", "e", "l", " ", "i", "s", " ", "a", "v", "a", "i", "l", "a", "b", "l", "e">>,
         <<"3", ".", " ", "O", "l", "l", "a", "m", "a", " ", "i", "s", " ", "a", "c", "c", "e", "s", "s", "i", "b", "l", "e">>,
         <<>>,
         <<"Y", "o", "u", " ", "c", "a", "n", " ", "a", "l", "s", "o", " ", "t", "r", "y">>>>

\* the lines of a text joined by newlines
RECURSIVE JoinLines(_)
JoinLines(lines) ==
    IF lines = <<>> THEN <<>>
    ELSE IF Len(lines) = 1 THEN lines[1]
    ELSE lines[1] \o <<"\n">> \o JoinLines(Tail(lines))

\* ---------------------------------------------------------- consolidation
\* Memory.id IN (SELECT source_memory_ids ...): the subquery yields one array
\* per summary, the left side is a single id.  A database that evaluates the
\* comparison never finds an id equal to an array.
SummaryRowsOf(user_id) ==
    {[is_array |-> TRUE, value |-> sm.source_memory_ids] :
        sm \in {x \in summaries : x.user_id = user_id}}

IdIn(id, rows) == \E r \in rows : ~r.is_array /\ r.value = id

FirstN(q, n) == IF Len(q) <= n THEN q ELSE SubSeq(q, 1, n)

\* the rows of the consolidation query, in id order
memories_to_consolidate(user_id) ==
    LET cutoff_date == now - consolidation_threshold_days
        rows == {m \in memories :
                    /\ m.user_id = user_id
                    /\ m.created_at < cutoff_date
                    /\ ~IdIn(m.id, SummaryRowsOf(user_id))}
        ids == FirstN(Ascending({m.id : m \in rows}), ConsolidationLimit)
    IN  [i \in 1..Len(ids) |-> MemoryById(ids[i])]

\* np.dot(a, b) / (norm(a) * norm(b) + 1e-8) >= 0.7, on dot products kept
\* in thousandths; the 1e-8 makes an exact 0.7 fall short
Similar(a, b) ==
    LET d  == Dot(a.body, b.body) \div 1000
        na == Dot(a.body, a.body) \div 1000
        nb == Dot(b.body, b.body) \div 1000
    IN  d > 0 /\ 100 * d * d > 49 * na * nb

\* the chunk that SELECT ... LIMIT 1 returns for a memory: pick names a chunk
\* index, the first chunk stands in when the memory has no such index
FirstEmbedding(memory_id, pick) ==
    LET rows == ChunksOf(embeddings, memory_id)
        wanted == {e \in rows : e.chunk_index = pick[memory_id]}
    IN  IF rows = {} THEN <<>>
        ELSE IF wanted # {} THEN <<(CHOOSE e \in wanted : TRUE).embedding>>
        ELSE <<(CHOOSE e \in rows : e.chunk_index = 0).embedding>>

RECURSIVE SelectSeqIdx(_, _, _)
SelectSeqIdx(q, keep, i) ==
    IF i > Len(q) THEN <<>>
    ELSE (IF i \in keep THEN <<q[i]>> ELSE <<>>) \o SelectSeqIdx(q, keep, i + 1)

RECURSIVE GroupsFrom(_, _, _)
GroupsFrom(memory_embeddings, i, used) ==
    IF i > Len(memory_embeddings) THEN <<>>
    ELSE IF i \in used THEN GroupsFrom(memory_embeddings, i + 1, used)
    ELSE
      LET joined == {j \in (i + 1)..Len(memory_embeddings) :
                        /\ j \notin used
                        /\ Similar(memory_embeddings[i].emb,
                                   memory_embeddings[j].emb)}
          group == SelectSeqIdx([k \in 1..Len(memory_embeddings) |->
                                    memory_embeddings[k].memory],
                                {i} \cup joined, 1)
      IN  <<group>> \o GroupsFrom(memory_embeddings, i + 1,
                                  used \cup {i} \cup joined)

\* MemoryManager._cluster_memories
cluster_memories(mems, pick) ==
    LET with_emb == {i \in 1..Len(mems) : FirstEmbedding(mems[i].id, pick) # <<>>}
        memory_embeddings ==
            SelectSeqIdx([i \in 1..Len(mems) |->
                            [memory |-> mems[i],
                             emb |-> IF i \in with_emb
                                     THEN FirstEmbedding(mems[i].id, pick)[1]
                                     ELSE Vec(0, <<>>)]],
                         with_emb, 1)
    IN  IF Len(mems) = 0 THEN <<>>
        ELSE IF Len(memory_embeddings) = 0 THEN [i \in 1..Len(mems) |-> <<mems[i]>>]
        ELSE GroupsFrom(memory_embeddings, 1, {})


\* what the language model answers
LlmSummary == T_yo

\* llm_generator.generate(summary_prompt): the answer of the model, or the
\* fallback response when the request fails; the combined content of the
\* memories is no text in this model and stands as an empty line
SummaryText(group, llm_ok) ==
    IF llm_ok THEN LlmSummary ELSE JoinLines(fallback_response(<<<<>>>>))

\* the MemorySummary built around the embedding of its text
SummaryRow(embedded, summary_text, user_id, group, id) ==
    LET created == {group[i].created_at : i \in 1..Len(group)}
        \* np.mean of the importances, in millionths
        scores == [i \in 1..Len(group) |->
                      get_memory_importance(group[i].id) \div 1000]
    IN  IF embedded.raised
        THEN [s |-> embedded.s, raised |-> TRUE, value |-> None]
        ELSE [s |-> embedded.s, raised |-> FALSE,
              value |-> [id |-> id,
                         user_id |-> user_id,
                         summary_text |-> summary_text,
                         summary_embedding |-> embedded.value,
                         source_memory_ids |-> [i \in 1..Len(group) |-> group[i].id],
                         memory_count |-> Len(group),
                         date_range_start |-> MinOf(created),
                         date_range_end |-> MaxOf(created),
                         importance_score |-> SumSeq(scores) \div Len(group),
                         created_at |-> now]]

\* MemoryManager._create_memory_summary for one group; raised when
\* embed_text raises, which nothing on the way catches
create_memory_summary(s, user_id, group, id, llm_ok, encode_ok) ==
    SummaryRow(embed_text(s, SummaryText(group, llm_ok), TRUE, cache_enabled,
                          embedding_model, encode_ok),
               SummaryText(group, llm_ok), user_id, group, id)

\* the loop of consolidate_memories over memory_groups[k..]; pending are the
\* summaries added to the session so far
RECURSIVE SummariesFrom(_, _, _, _, _, _, _)
RECURSIVE SummariesAfter(_, _, _, _, _, _, _)
SummariesFrom(memory_groups, k, s, pending, user_id, llm_ok, fail_at) ==
    IF k > Len(memory_groups)
    THEN [s |-> s, raised |-> FALSE, value |-> pending]
    ELSE SummariesAfter(
             create_memory_summary(s, user_id, memory_groups[k],
                                   Cardinality(summaries) + k, llm_ok,
                                   fail_at # k),
             memory_groups, k, pending, user_id, llm_ok, fail_at)

SummariesAfter(summary, memory_groups, k, pending, user_id, llm_ok, fail_at) ==
    IF summary.raised
    THEN [s |-> summary.s, raised |-> TRUE, value |-> {}]
    ELSE SummariesFrom(memory_groups, k + 1, summary.s,
                       pending \cup {summary.value}, user_id, llm_ok, fail_at)

\* ------------------------------------------------------------- forgetting
\* forget_unimportant_memories: the memories it deletes
EffectiveThreshold(threshold) ==
    IF threshold = <<>> \/ threshold[1] = 0
    THEN min_importance_threshold ELSE threshold[1]

old_memories(user_id) ==
    {m \in memories :
        m.user_id = user_id /\ m.created_at < now - consolidation_threshold_days}

Forgotten(user_id, threshold) ==
    {m \in old_memories(user_id) :
        get_memory_importance(m.id) < EffectiveThreshold(threshold)}

RECURSIVE DeleteAll(_, _)
DeleteAll(db, ids) ==
    IF ids = {} THEN db
    ELSE LET id == MinOf(ids) IN DeleteAll(delete_cascade(db, id), ids \ {id})


\* ------------------------------------------------- operations on the store
MaxAccesses  == 1
MaxSummaries == 2
MaxChunks    == 2
MaxStoreRequests == 5   \* embedding requests after which no store call starts

\* db.flush() of create_memory: the INSERT is sent inside the transaction of
\* the request, so no other session sees the row yet
NewMemory(id, user_id, upload) ==
    [id |-> id, user_id |-> user_id, content_type |-> upload.content_type,
     content |-> upload.content, meta_memory_type |-> None,
     created_at |-> now, memory_type |-> "episodic", last_accessed |-> now]

\* a commit that publishes the memory and loses its chunk rows
commit_memory_only(db, memory, rows) ==
    [db EXCEPT !.memories = @ \cup {memory}]

\* db.commit() of create_memory: the memory and its chunk rows appear together
commit(db, memory, rows) ==
    [db EXCEPT !.memories = @ \cup {memory}, !.embeddings = @ \cup rows]

\* create_memory from the flush on: the chunk loop, then commit, or rollback
\* when the encoder raises, the commit fails or the column refuses a vector.
\* The result is [s, db, encoder_failed, raised].
Committed(embedded, db, memory, chunks, commit_ok) ==
    LET accepted == /\ ~embedded.raised
                    /\ commit_ok
                    /\ \A i \in 1..Len(embedded.value) :
                          column_accepts(embedded.value[i])
    IN  [s |-> embedded.s,
         db |-> IF accepted
                THEN commit(db, memory,
                            EmbeddingRows(memory.id, chunks, embedded.value))
                ELSE db,
         encoder_failed |-> embedded.raised,
         raised |-> ~accepted]

create_memory(s, db, memory, chunks, fail_at, commit_ok) ==
    Committed(EmbedChunks(chunks, 1, s, fail_at), db, memory, chunks, commit_ok)

\* the state after create_memory returned or raised
Created(done, id, chunks) ==
    /\ SetSvc(done.s)
    /\ SetDb(done.db)
    /\ op' = [name |-> "create_memory", id |-> id, raised |-> done.raised,
              encoder_failed |-> done.encoder_failed, chunks |-> chunks]

\* a whole call of create_memory
CreateMemory(user_id, upload, fail_at, commit_ok) ==
    /\ next_id <= MaxIds
    /\ stats.total_requests < MaxStoreRequests
    /\ ~tx.open
    /\ fail_at \in 0..Len(upload.chunks)
    /\ Created(create_memory(Svc, Db, NewMemory(next_id, user_id, upload),
                             upload.chunks, fail_at, commit_ok),
               next_id, Len(upload.chunks))
    /\ next_id' = next_id + 1
    /\ UNCHANGED <<now, summaries, tx, cache_enabled, embedding_model>>
    /\ UNCHANGED <<callVars, chatVars, taskVars>>

\* create_memory up to db.flush()
CreateBegin(user_id, upload) ==
    /\ ~tx.open
    /\ next_id <= MaxIds
    /\ tx' = [open |-> TRUE, memory |-> NewMemory(next_id, user_id, upload),
              chunks |-> upload.chunks]
    /\ next_id' = next_id + 1
    /\ op' = [name |-> "flush", id |-> next_id]
    /\ UNCHANGED <<now, memories, embeddings, memory_access, summaries>>
    /\ UNCHANGED <<embVars, callVars, chatVars, taskVars>>

\* create_memory after db.flush()
CreateFinish(fail_at, commit_ok) ==
    /\ tx.open
    /\ fail_at \in 0..Len(tx.chunks)
    /\ Created(create_memory(Svc, Db, tx.memory, tx.chunks, fail_at,
                             commit_ok),
               tx.memory.id, Len(tx.chunks))
    /\ tx' = NoTx
    /\ UNCHANGED <<now, summaries, next_id, cache_enabled, embedding_model>>
    /\ UNCHANGED <<callVars, chatVars, taskVars>>

DeleteMemory(user_id, memory_id) ==
    LET owned == \E m \in memories : m.id = memory_id /\ m.user_id = user_id
    IN  /\ SetDb(IF owned THEN delete_cascade(Db, memory_id) ELSE Db)
        /\ op' = IF owned
                 THEN [name |-> "delete_memory", value |-> TRUE, id |-> memory_id,
                       chunks |-> Cardinality(ChunksOf(embeddings, memory_id)),
                       accesses |-> Cardinality(AccessesOf(memory_access,
                                                           memory_id))]
                 ELSE [name |-> "delete_memory", value |-> FALSE]
        /\ UNCHANGED <<now, summaries, next_id, tx>>
        /\ UNCHANGED <<embVars, callVars, chatVars, taskVars>>

\* record_memory_access; the foreign key refuses a row for a missing memory
RecordAccess(memory_id) ==
    LET count == Cardinality(AccessesOf(memory_access, memory_id))
    IN  /\ count < MaxAccesses
        /\ memory_access' =
              IF memory_id \in MemoryIds
              THEN memory_access \cup
                     {[id |-> count + 1, memory_id |-> memory_id,
                       access_type |-> "retrieval", accessed_at |-> now]}
              ELSE memory_access
        /\ op' = [name |-> "record_memory_access", id |-> memory_id,
                  raised |-> memory_id \notin MemoryIds]
        /\ UNCHANGED <<now, memories, embeddings, summaries, next_id, tx>>
        /\ UNCHANGED <<embVars, callVars, chatVars, taskVars>>

\* the clock moves on
AdvanceSteps == {consolidation_threshold_days, consolidation_threshold_days + 1}

Advance(days) ==
    /\ now + days <= MaxNow
    /\ now' = now + days
    /\ op' = [name |-> "advance"]
    /\ UNCHANGED <<memories, embeddings, memory_access, summaries, next_id, tx>>
    /\ UNCHANGED <<embVars, callVars, chatVars, taskVars>>

\* scripts/setup_hierarchical_memory.py classify_existing_memories: a memory
\* whose classification raises keeps its type, the others are committed
ClassifyExisting ==
    /\ memories' =
          {IF m.memory_type = "episodic" /\ ~classify_memory(m).raised
           THEN [m EXCEPT !.memory_type = classify_memory(m).value]
           ELSE m : m \in memories}
    /\ op' = [name |-> "classify_existing_memories",
              failed |-> {m.id : m \in {x \in memories :
                             x.memory_type = "episodic" /\ classify_memory(x).raised}}]
    /\ UNCHANGED <<now, embeddings, memory_access, summaries, next_id, tx>>
    /\ UNCHANGED <<embVars, callVars, chatVars, taskVars>>


\* the end of consolidate_memories: commit, or nothing when a group raised
Consolidated(built, user_id, selected, groups) ==
    /\ SetSvc(built.s)
    /\ summaries' = IF built.raised THEN summaries
                    ELSE summaries \cup built.value
    /\ op' = [name |-> "consolidate_memories", user_id |-> user_id,
              raised |-> built.raised,
              selected |-> {selected[i].id : i \in 1..Len(selected)},
              groups |-> groups,
              summaries_created |-> IF built.raised THEN 0 ELSE groups]

ConsolidateGroups(memory_groups, user_id, selected, llm_ok, fail_at) ==
    /\ fail_at <= Len(memory_groups)
    /\ Cardinality(summaries) + Len(memory_groups) <= MaxSummaries
    /\ Consolidated(SummariesFrom(memory_groups, 1, Svc, {}, user_id, llm_ok,
                                  fail_at),
                    user_id, selected, Len(memory_groups))

ConsolidateSelected(selected, user_id, pick, llm_ok, fail_at) ==
    ConsolidateGroups(cluster_memories(selected, pick), user_id, selected,
                      llm_ok, fail_at)

\* consolidate_memories when the database evaluates the selection.  pick is
\* the chunk each LIMIT 1 returns, llm_ok whether the language model answers,
\* fail_at the group (from 1) at which the encoder fails, 0 for never.
Consolidate(user_id, pick, llm_ok, fail_at) ==
    /\ stats.total_requests < MaxStoreRequests
    /\ ConsolidateSelected(memories_to_consolidate(user_id), user_id, pick,
                           llm_ok, fail_at)
    /\ UNCHANGED <<now, memories, embeddings, memory_access, next_id, tx>>
    /\ UNCHANGED <<cache_enabled, embedding_model>>
    /\ UNCHANGED <<callVars, chatVars, taskVars>>

\* consolidate_memories when the database refuses to compare an id with an
\* array: the statement fails and the call raises
ConsolidateRejected(user_id) ==
    /\ op' = [name |-> "consolidate_memories", user_id |-> user_id,
              raised |-> TRUE, selected |-> {}, groups |-> 0,
              summaries_created |-> 0]
    /\ UNCHANGED <<now, memories, embeddings, memory_access, summaries,
                   next_id, tx>>
    /\ UNCHANGED <<embVars, callVars, chatVars, taskVars>>

\* None, 0.0 and 0.3 as the threshold argument
ThresholdInputs == {<<>>, <<0>>, <<3 * min_importance_threshold>>}

ForgetIds(forgotten, user_id, threshold) ==
    /\ SetDb(DeleteAll(Db, forgotten))
    /\ op' = [name |-> "forget_unimportant_memories", user_id |-> user_id,
              threshold |-> threshold, forgotten |-> forgotten,
              raised |-> FALSE,
              accesses |-> Cardinality({a \in memory_access :
                                          a.memory_id \in forgotten})]

Forget(user_id, threshold) ==
    /\ ForgetIds({m.id : m \in Forgotten(user_id, threshold)}, user_id,
                 EffectiveThreshold(threshold))
    /\ UNCHANGED <<now, summaries, next_id, tx>>
    /\ UNCHANGED <<embVars, callVars, chatVars, taskVars>>

\* consolidation beside creation, classification and deletion
NextConsolidate ==
    \/ \E user_id \in Users, upload \in Uploads,
          fail_at \in 0..MaxChunks, commit_ok \in BOOLEAN :
          CreateMemory(user_id, upload, fail_at, commit_ok)
    \/ \E user_id \in Users, memory_id \in 1..MaxIds :
          DeleteMemory(user_id, memory_id)
    \/ \E days \in AdvanceSteps : Advance(days)
    \/ ClassifyExisting
    \/ \E user_id \in Users, pick \in [1..MaxIds -> 0..(MaxChunks - 1)],
          llm_ok \in BOOLEAN, fail_at \in 0..MaxIds :
          Consolidate(user_id, pick, llm_ok, fail_at)
    \/ \E user_id \in Users : ConsolidateRejected(user_id)

\* the store runs with the configured default, all-MiniLM-L6-v2, an uncased
\* model
InitDefault == Init /\ embedding_model = "uncased"

SpecConsolidate == InitDefault /\ [][NextConsolidate]_vars

\* forgetting beside creation, access logging and deletion
NextForget ==
    \/ \E user_id \in Users, upload \in Uploads,
          fail_at \in 0..MaxChunks, commit_ok \in BOOLEAN :
          CreateMemory(user_id, upload, fail_at, commit_ok)
    \/ \E user_id \in Users, memory_id \in 1..MaxIds :
          DeleteMemory(user_id, memory_id)
    \/ \E memory_id \in 1..MaxIds : RecordAccess(memory_id)
    \/ \E days \in AdvanceSteps : Advance(days)
    \/ \E user_id \in Users, threshold \in ThresholdInputs :
          Forget(user_id, threshold)

SpecForget == InitDefault /\ [][NextForget]_vars

\* create_memory split at its flush, beside deletions
NextCreate ==
    \/ \E user_id \in Users, upload \in Uploads : CreateBegin(user_id, upload)
    \/ \E fail_at \in 0..MaxChunks, commit_ok \in BOOLEAN :
          CreateFinish(fail_at, commit_ok)
    \/ \E user_id \in Users, memory_id \in 1..MaxIds :
          DeleteMemory(user_id, memory_id)
    \/ \E memory_id \in 1..MaxIds : RecordAccess(memory_id)

SpecCreate == Init /\ [][NextCreate]_vars


\* ------------------------------------------------- hierarchical retrieval
\* the requests the embedding service may have served when a search or an
\* answer begins
MaxAskRequests == 3

\* the integer square root by bisection, for vector norms in thousandths
RECURSIVE IsqrtIn(_, _, _)
IsqrtIn(n, lo, hi) ==
    IF lo = hi THEN lo
    ELSE IF ((lo + hi + 1) \div 2) * ((lo + hi + 1) \div 2) <= n
         THEN IsqrtIn(n, (lo + hi + 1) \div 2, hi)
         ELSE IsqrtIn(n, lo, ((lo + hi + 1) \div 2) - 1)

Isqrt(n) == IsqrtIn(n, 0, 2047)

\* 1 - cosine_distance(a, b), in thousandths
Similarity(a, b) ==
    (Dot(a.body, b.body) * 1000)
        \div (Isqrt(Dot(a.body, a.body)) * Isqrt(Dot(b.body, b.body)))

\* ORDER BY distance DESC LIMIT n over a set of rows: every sequence the
\* database may return, rows at equal distance coming in any order.  sim
\* gives the similarity of a row, so the largest distance is the smallest
\* similarity.
RECURSIVE FarthestFirst(_, _, _)
FarthestFirst(rows, sim, n) ==
    IF n = 0 \/ rows = {} THEN {<<>>}
    ELSE UNION {{<<x>> \o rest : rest \in FarthestFirst(rows \ {x}, sim, n - 1)} :
                  x \in {y \in rows : \A z \in rows : sim[y] <= sim[z]}}

\* list.sort(key=row[key], reverse=True): stable, by insertion
RECURSIVE InsertByKey(_, _, _)
InsertByKey(sorted, row, key) ==
    IF sorted = <<>> THEN <<row>>
    ELSE IF Head(sorted)[key] >= row[key]
         THEN <<Head(sorted)>> \o InsertByKey(Tail(sorted), row, key)
         ELSE <<row>> \o sorted

RECURSIVE SortByKey(_, _)
SortByKey(q, key) ==
    IF q = <<>> THEN <<>>
    ELSE InsertByKey(SortByKey(SubSeq(q, 1, Len(q) - 1), key), q[Len(q)], key)

SortBySimilarity(q) == SortByKey(q, "similarity")

\* the rows of the episodic query: chunks joined with their memory, of the
\* user, the memory created not before now - 7 days
EpisodicRows(user_id) ==
    {e \in embeddings :
        \E m \in memories :
            /\ m.id = e.memory_id
            /\ m.user_id = user_id
            /\ m.created_at >= now - episodic_threshold_days}

SummaryRows(user_id) == {sm \in summaries : sm.user_id = user_id}

\* a primary key as the results carry it: the keys are uuid4 values, so a
\* key of one table is never a key of another
Uuid(table, id) == [table |-> table, id |-> id]

EpisodicResult(e, query_embedding) ==
    [memory_id |-> Uuid("memories", e.memory_id),
     content_type |-> MemoryById(e.memory_id).content_type,
     chunk_text |-> e.chunk_text,
     similarity |-> Similarity(e.embedding, query_embedding),
     memory_type |-> "episodic",
     created_at |-> MemoryById(e.memory_id).created_at]

SemanticResult(sm, query_embedding) ==
    [memory_id |-> Uuid("memory_summaries", sm.id),
     content_type |-> "summary",
     chunk_text |-> sm.summary_text,
     similarity |-> Similarity(sm.summary_embedding, query_embedding),
     memory_type |-> "semantic",
     created_at |-> sm.created_at]

MapSeq(q, row_of) == [i \in 1..Len(q) |-> row_of[q[i]]]

\* MemoryManager.retrieve_with_hierarchy: the set of lists it may return
retrieve_with_hierarchy(user_id, query_embedding, top_k, include_summaries) ==
    LET episodic == [e \in EpisodicRows(user_id) |->
                        EpisodicResult(e, query_embedding)]
        semantic == [sm \in SummaryRows(user_id) |->
                        SemanticResult(sm, query_embedding)]
        first    == FarthestFirst(DOMAIN episodic,
                                  [e \in DOMAIN episodic |-> episodic[e].similarity],
                                  top_k \div 2)
        second   == IF include_summaries
                    THEN FarthestFirst(DOMAIN semantic,
                                       [sm \in DOMAIN semantic |->
                                           semantic[sm].similarity],
                                       top_k \div 2)
                    ELSE {<<>>}
    IN  {FirstN(SortBySimilarity(MapSeq(a, episodic) \o MapSeq(b, semantic)),
                top_k) : a \in first, b \in second}

QueryVectors == {Vec(TargetDim, <<600, 800>>), Vec(TargetDim, <<1000, 0>>)}

TopKInputs == {2, 5}

Retrieve(user_id, query_embedding, top_k, include_summaries) ==
    /\ \E results \in retrieve_with_hierarchy(user_id, query_embedding, top_k,
                                              include_summaries) :
          op' = [name |-> "retrieve_with_hierarchy", user_id |-> user_id,
                 query_embedding |-> query_embedding, top_k |-> top_k,
                 include_summaries |-> include_summaries, results |-> results]
    /\ UNCHANGED <<now, memories, embeddings, memory_access, summaries,
                   next_id, tx>>
    /\ UNCHANGED <<embVars, callVars, chatVars, taskVars>>

\* retrieval beside successful creation and consolidation
NextRetrieve ==
    \/ \E user_id \in Users, upload \in Uploads :
          CreateMemory(user_id, upload, 0, TRUE)
    \/ \E days \in AdvanceSteps : Advance(days)
    \/ \E user_id \in Users, llm_ok \in BOOLEAN :
          Consolidate(user_id, [i \in 1..MaxIds |-> 0], llm_ok, 0)
    \/ \E user_id \in Users, query_embedding \in QueryVectors,
          top_k \in TopKInputs, include_summaries \in BOOLEAN :
          Retrieve(user_id, query_embedding, top_k, include_summaries)

SpecRetrieve == InitDefault /\ [][NextRetrieve]_vars


\* --------------------------------------------------------- context builder
\* ContextBuilder.max_tokens
DefaultMaxTokens == 4096

\* the tokens of a block beside its content: "[Source N]", "Type: ..." and
\* "Content:"; the tokenizer is taken to give one token per character of
\* the chunk
FormatTokens == 8

\* str.strip() for blanks
RECURSIVE LStrip(_)
LStrip(text) ==
    IF text # <<>> /\ Head(text) = " " THEN LStrip(Tail(text)) ELSE text

RECURSIVE RStrip(_)
RStrip(text) ==
    IF text # <<>> /\ text[Len(text)] = " "
    THEN RStrip(SubSeq(text, 1, Len(text) - 1)) ELSE text

Strip(text) == RStrip(LStrip(text))

\* ContextBuilder._format_result: the block of result number index
format_result(result, index, include_metadata) ==
    [index |-> index,
     content_type |-> result.content_type,
     pages |-> include_metadata /\ result.content_type = "pdf",
     content |-> Strip(result.chunk_text)]

count_tokens(block) ==
    FormatTokens + (IF block.pages THEN 1 ELSE 0) + Len(block.content)

\* the loop of build_context from result i on: the blocks appended
RECURSIVE BlocksFrom(_, _, _, _, _, _)
BlocksFrom(results, i, seen_content, current_tokens, max_tokens, include_metadata) ==
    IF i > Len(results) THEN <<>>
    ELSE IF results[i].chunk_text = <<>> \/ results[i].chunk_text \in seen_content
         THEN BlocksFrom(results, i + 1, seen_content, current_tokens,
                         max_tokens, include_metadata)
    ELSE IF current_tokens
              + count_tokens(format_result(results[i], i, include_metadata))
              > max_tokens
         THEN <<>>
    ELSE <<format_result(results[i], i, include_metadata)>>
         \o BlocksFrom(results, i + 1, seen_content \cup {results[i].chunk_text},
                       current_tokens
                         + count_tokens(format_result(results[i], i, include_metadata)),
                       max_tokens, include_metadata)

\* ContextBuilder.build_context: the context as the list of its blocks;
\* max_context_tokens 0 stands for None
build_context(results, max_context_tokens, include_metadata) ==
    BlocksFrom(results, 1, {}, 0,
               IF max_context_tokens # 0 THEN max_context_tokens
               ELSE DefaultMaxTokens \div 2,
               include_metadata)

\* an answer of the language model: words and "[Source N]" citations
Word == [kind |-> "word", n |-> 0]

Cite(n) == [kind |-> "cite", n |-> n]

\* re.finditer(r'\[Source (\d+)\]', response): the indexes cited
cited_indices(response) ==
    {response[i].n - 1 : i \in {j \in DOMAIN response : response[j].kind = "cite"}}

\* the cited indexes inside the list, ascending
RECURSIVE SourcesFrom(_, _, _)
SourcesFrom(results, cited, idx) ==
    IF idx >= Len(results) THEN <<>>
    ELSE (IF idx \in cited
          THEN <<[index |-> idx,
                  memory_id |-> results[idx + 1].memory_id,
                  content_type |-> results[idx + 1].content_type,
                  snippet |-> FirstN(results[idx + 1].chunk_text, 200),
                  similarity |-> results[idx + 1].similarity]>>
          ELSE <<>>)
         \o SourcesFrom(results, cited, idx + 1)

\* ContextBuilder.extract_sources; index is the position the source was
\* taken from and is not a key of the dict the code returns
extract_sources(response, results) ==
    SourcesFrom(results, cited_indices(response), 0)

\* ------------------------------------------------------- multi-hop answers
\* marker in query_lower
Contains(text, marker) ==
    \E i \in 1..(Len(text) - Len(marker) + 1) :
        SubSeq(text, i, i + Len(marker) - 1) = marker

temporal_markers ==
    {<<"r", "e", "c", "e", "n", "t">>,
     <<"y", "e", "s", "t", "e", "r", "d", "a", "y">>,
     <<"l", "a", "s", "t", " ", "w", "e", "e", "k">>,
     <<"t", "o", "d", "a", "y">>,
     <<"w", "h", "e", "n">>,
     <<"l", "a", "t", "e", "s", "t">>,
     <<"n", "e", "w", "e", "s", "t">>,
     <<"o", "l", "d", "e", "s", "t">>,
     <<"f", "i", "r", "s", "t">>}

multi_hop_indicators ==
    {<<"a", "n", "d", " ", "t", "h", "e", "n">>,
     <<"a", "f", "t", "e", "r", " ", "t", "h", "a", "t">>,
     <<"c", "o", "m", "p", "a", "r", "e">>,
     <<"d", "i", "f", "f", "e", "r", "e", "n", "c", "e", " ", "b", "e", "t", "w", "e", "e", "n">>,
     <<"r", "e", "l", "a", "t", "i", "o", "n", "s", "h", "i", "p">>,
     <<"c", "o", "n", "n", "e", "c", "t", "i", "o", "n">>,
     <<"h", "o", "w", " ", "d", "o", "e", "s">>,
     <<"w", "h", "y", " ", "d", "i", "d">>,
     <<"e", "x", "p", "l", "a", "i", "n", " ", "t", "h", "e", " ", "p", "r", "o", "c", "e", "s", "s">>,
     <<"s", "t", "e", "p", " ", "b", "y", " ", "s", "t", "e", "p">>}

comparison_words ==
    {<<"c", "o", "m", "p", "a", "r", "e">>,
     <<"d", "i", "f", "f", "e", "r", "e", "n", "c", "e">>,
     <<"v", "e", "r", "s", "u", "s">>,
     <<"v", "s">>,
     <<"b", "e", "t", "t", "e", "r">>,
     <<"w", "o", "r", "s", "e">>}

\* QueryAnalyzer.analyze_query, the keys answer_query reads
analyze_query(query) ==
    LET has_temporal  == \E m \in temporal_markers : Contains(LowerText(query), m)
        is_complex    == \E m \in multi_hop_indicators : Contains(LowerText(query), m)
        is_comparison == \E m \in comparison_words : Contains(LowerText(query), m)
    IN  [has_temporal |-> has_temporal, is_complex |-> is_complex,
         is_comparison |-> is_comparison,
         requires_multi_hop |-> is_complex \/ is_comparison]

Digits == {"0", "1", "2", "3", "4", "5", "6", "7", "8", "9"}

RECURSIVE DropDigits(_)
DropDigits(line) ==
    IF line # <<>> /\ Head(line) \in Digits THEN DropDigits(Tail(line)) ELSE line

\* re.sub(r'^\d+[\.)]\s*', '', line)
strip_number(line) ==
    IF /\ line # <<>>
       /\ Head(line) \in Digits
       /\ DropDigits(line) # <<>>
       /\ Head(DropDigits(line)) \in {".", ")"}
    THEN LStrip(Tail(DropDigits(line)))
    ELSE line

\* re.sub(r'^[-...]\s*', '', line) for the bullet "-"
strip_bullet(line) ==
    IF line # <<>> /\ Head(line) = "-" THEN LStrip(Tail(line)) ELSE line

\* the lines of the model's response kept as sub-queries
RECURSIVE ParseSubQueries(_)
ParseSubQueries(lines) ==
    IF lines = <<>> THEN <<>>
    ELSE (IF Len(strip_bullet(strip_number(Strip(Head(lines))))) > 10
          THEN <<strip_bullet(strip_number(Strip(Head(lines))))>>
          ELSE <<>>)
         \o ParseSubQueries(Tail(lines))

NoneOr(parsed, query) == IF parsed # <<>> THEN parsed ELSE <<query>>

\* QueryAnalyzer.decompose_query: response is <<>> when the request to the
\* language model fails, else <<lines>>; generate then returns the fallback
\* response, whose lines are parsed like an answer
decompose_query(query, response) ==
    IF ~analyze_query(query).requires_multi_hop THEN <<query>>
    ELSE IF response = <<>>
         THEN NoneOr(ParseSubQueries(fallback_response(
                         <<<<"D", "e", "c", "o", "m", "p", "o", "s", "e", " ", "t", "h", "i", "s", " ", "q", "u", "e", "s", "t", "i", "o", "n", ":">>,
                           query>>)),
                     query)
    ELSE NoneOr(ParseSubQueries(response[1]), query)

Q_vs == <<"h", "i", " ", "v", "s", " ", "y", "o">>

Q_when == <<"w", "h", "e", "n", " ", "h", "i">>

Queries == {T_hi, Q_vs, Q_when}

\* responses of the language model to the decomposition prompt
Decompositions ==
    {<<>>,
     <<<<<<"1", ".", " ", "w", "h", "a", "t", " ", "i", "s", " ", "h", "i", "?">>,
        <<"2", ")", " ", "w", "h", "a", "t", " ", "i", "s", " ", "y", "o", "?">>>>>>,
     <<<<<<"-", " ", "w", "h", "a", "t", " ", "i", "s", " ", "h", "i", "?">>, <<"h", "i">>>>>>}

\* TemporalRetriever.apply_temporal_boost(results, 0.4, True), scores in
\* thousandths
temporal_score(result) ==
    IF Days(now - result.created_at) < 7
    THEN ((ExpNeg30(Days(now - result.created_at)) \div 1000) * 3) \div 2
    ELSE ExpNeg30(Days(now - result.created_at)) \div 1000

Boosted(result) ==
    [memory_id |-> result.memory_id, content_type |-> result.content_type,
     chunk_text |-> result.chunk_text, similarity |-> result.similarity,
     memory_type |-> result.memory_type, created_at |-> result.created_at,
     temporal_score |-> temporal_score(result),
     original_similarity |-> result.similarity,
     boosted_score |-> (600 * result.similarity + 400 * temporal_score(result))
                          \div 1000]

apply_temporal_boost(results) ==
    SortByKey([i \in 1..Len(results) |-> Boosted(results[i])], "boosted_score")

\* the results of one sub-query put before those of the later ones
Extend(results, outcomes) ==
    {[o EXCEPT !.all_results = results \o @] : o \in outcomes}

\* Step 3 of answer_query from sub-query k on: every outcome the loop may
\* have.  The embedding (fail_in "embed") or the retrieval (fail_in
\* "retrieve") of sub-query fail_at raises; nothing catches it.
RECURSIVE RetrieveFrom(_, _, _, _, _, _, _)
RECURSIVE Retrieved(_, _, _, _, _, _, _)
RetrieveFrom(s, user_id, sub_queries, k, fail_at, fail_in, has_temporal) ==
    IF k > Len(sub_queries)
    THEN {[s |-> s, raised |-> FALSE, all_results |-> <<>>]}
    ELSE Retrieved(embed_text(s, sub_queries[k], TRUE, cache_enabled,
                              embedding_model,
                              ~(fail_at = k /\ fail_in = "embed")),
                   user_id, sub_queries, k, fail_at, fail_in, has_temporal)

Retrieved(e, user_id, sub_queries, k, fail_at, fail_in, has_temporal) ==
    IF e.raised \/ (fail_at = k /\ fail_in = "retrieve")
    THEN {[s |-> e.s, raised |-> TRUE, all_results |-> <<>>]}
    ELSE UNION {Extend(IF has_temporal THEN apply_temporal_boost(results)
                       ELSE results,
                       RetrieveFrom(e.s, user_id, sub_queries, k + 1, fail_at,
                                    fail_in, has_temporal)) :
                  results \in retrieve_with_hierarchy(user_id, e.value, 5, TRUE)}

\* Step 4: the first result of every memory_id
RECURSIVE Unique(_, _)
Unique(all_results, seen_ids) ==
    IF all_results = <<>> THEN <<>>
    ELSE IF Head(all_results).memory_id \in seen_ids
         THEN Unique(Tail(all_results), seen_ids)
         ELSE <<Head(all_results)>>
              \o Unique(Tail(all_results), seen_ids \cup {Head(all_results).memory_id})

unique_results(all_results, has_temporal) ==
    FirstN(SortByKey(Unique(all_results, {}),
                     IF has_temporal THEN "boosted_score" ELSE "similarity"),
           10)

\* MemoryManager.record_memory_access for each of the keys ids in turn, every call
\* with its own commit: the rows committed, and whether a call raised on
\* the foreign key of memory_access.memory_id
IsMemory(uuid) == uuid.table = "memories" /\ uuid.id \in MemoryIds

RECURSIVE record_accesses(_, _)
record_accesses(rows, ids) ==
    IF ids = <<>> THEN [rows |-> rows, raised |-> FALSE]
    ELSE IF ~IsMemory(Head(ids)) THEN [rows |-> rows, raised |-> TRUE]
    ELSE record_accesses(
             rows \cup {[id |-> Cardinality(AccessesOf(rows, Head(ids).id)) + 1,
                         memory_id |-> Head(ids).id,
                         access_type |-> "retrieval", accessed_at |-> now]},
             Tail(ids))

\* answers of the language model
Answers == {<<Word>>, <<Word, Cite(1)>>}

\* the access rows a memory may come to have
MaxAccessRows == 2

\* the text of _fallback_response as one word of an answer
Fallback == [kind |-> "fallback", n |-> 0]

\* llm_generator.generate(messages): answer is <<>> when the request to the
\* language model fails, and the fallback response cites nothing
generate(answer) == IF answer = <<>> THEN <<Fallback>> ELSE answer[1]

\* the end of answer_query once the retrieval loop has run
Answered(out, user_id, sub_queries, has_temporal, stream, answer) ==
    LET results  == unique_results(out.all_results, has_temporal)
        ids      == [i \in 1..Len(results) |-> results[i].memory_id]
        accessed == record_accesses(memory_access, FirstN(ids, 5))
        returns  == ~out.raised /\ (stream \/ ~accessed.raised)
    IN  /\ SetSvc(out.s)
        /\ memory_access' =
              IF out.raised \/ stream THEN memory_access
              ELSE accessed.rows
        /\ op' = [name |-> "answer_query", user_id |-> user_id,
                  stream |-> stream, sub_queries |-> Len(sub_queries),
                  retrieval_raised |-> out.raised,
                  access_raised |-> ~out.raised /\ ~stream /\ accessed.raised,
                  raised |-> ~returns,
                  results |-> IF out.raised THEN <<>> ELSE ids,
                  context |-> IF out.raised THEN 0
                              ELSE Len(build_context(results, 0, TRUE)),
                  sources |-> IF returns /\ ~stream
                              THEN extract_sources(generate(answer), results)
                              ELSE <<>>]

\* the sub-queries a call may decompose its query into
MaxSubQueries == 2

SubQueriesOf(query, response) ==
    IF analyze_query(query).requires_multi_hop
    THEN decompose_query(query, response)
    ELSE <<query>>

\* MultiHopRAG.answer_query
AnswerQuery(user_id, query, response, fail_at, fail_in, stream, answer) ==
    /\ stats.total_requests < MaxAskRequests
    /\ \A id \in MemoryIds :
          Cardinality(AccessesOf(memory_access, id)) < MaxAccessRows
    /\ \E out \in RetrieveFrom(Svc, user_id, SubQueriesOf(query, response),
                               1, fail_at, fail_in,
                               analyze_query(query).has_temporal) :
          Answered(out, user_id, SubQueriesOf(query, response),
                   analyze_query(query).has_temporal, stream, answer)
    /\ UNCHANGED <<now, memories, embeddings, summaries, next_id, tx>>
    /\ UNCHANGED <<embedding_model, cache_enabled, callVars, chatVars, taskVars>>

\* the calls of answer_query, one for every course it may take: the
\* response to the decomposition prompt matters to a multi-hop query only,
\* the failing sub-query is one of the list, and the answer of the model
\* matters only when the call comes to generate it without streaming
AskInputs ==
    {i \in [query : Queries, response : Decompositions,
            fail_at : 0..MaxSubQueries, fail_in : {"embed", "retrieve"},
            stream : BOOLEAN, answer : {<<>>} \cup {<<a>> : a \in Answers}] :
        /\ ~analyze_query(i.query).requires_multi_hop => i.response = <<>>
        /\ i.fail_at <= Len(SubQueriesOf(i.query, i.response))
        /\ i.fail_at = 0 => i.fail_in = "embed"
        /\ (i.fail_at > 0 \/ i.stream) => i.answer = <<>>
        /\ i.fail_at > 0 => ~i.stream}

\* a memory is still recent after the shorter step, and old enough to be
\* consolidated after the longer
AskAdvanceSteps == {episodic_threshold_days, consolidation_threshold_days + 1}

\* the uploads with text chunks
AskUploads == {u \in Uploads : u.content_type \in {"text", "pdf"}}

\* answers beside creation, the passing of time and consolidation
\* the user whose memories the questions are about
AskUsers == {"u1"}

NextAsk ==
    \/ \E user_id \in AskUsers, upload \in AskUploads :
          CreateMemory(user_id, upload, 0, TRUE)
    \/ \E days \in AskAdvanceSteps : Advance(days)
    \/ \E user_id \in AskUsers :
          Consolidate(user_id, [i \in 1..MaxIds |-> 0], TRUE, 0)
    \/ \E user_id \in AskUsers, i \in AskInputs :
          AnswerQuery(user_id, i.query, i.response, i.fail_at, i.fail_in,
                      i.stream, i.answer)

SpecAsk == InitDefault /\ [][NextAsk]_vars

\* -------------------------------------------------- search and re-ranking
\* ORDER BY distance LIMIT n: every sequence the database may return
RECURSIVE NearestFirst(_, _, _)
NearestFirst(rows, sim, n) ==
    IF n = 0 \/ rows = {} THEN {<<>>}
    ELSE UNION {{<<x>> \o rest : rest \in NearestFirst(rows \ {x}, sim, n - 1)} :
                  x \in {y \in rows : \A z \in rows : sim[y] >= sim[z]}}

\* the rows of StorageService.search_memories; content_type is None or a type
SearchRows(user_id, content_type) ==
    {e \in embeddings :
        \E m \in memories :
            /\ m.id = e.memory_id
            /\ m.user_id = user_id
            /\ content_type # None => m.content_type = content_type}

\* metadata are memory.meta_data or {}
SearchResult(e, query_embedding) ==
    [memory_id |-> e.memory_id,
     content_type |-> MemoryById(e.memory_id).content_type,
     chunk_text |-> e.chunk_text,
     similarity_score |-> Similarity(e.embedding, query_embedding),
     metadata |-> <<"{", "}">>,
     created_at |-> MemoryById(e.memory_id).created_at]

\* StorageService.search_memories: the lists it may return
search_memories(user_id, query_embedding, top_k, content_type) ==
    LET found == [e \in SearchRows(user_id, content_type) |->
                     SearchResult(e, query_embedding)]
    IN  {MapSeq(a, found) :
           a \in NearestFirst(DOMAIN found,
                              [e \in DOMAIN found |-> found[e].similarity_score],
                              top_k)}

\* PreferencesService.get_preferences: scalar_one_or_none
get_preferences(user_id) ==
    IF \E row \in preferences : row.user_id = user_id
    THEN <<CHOOSE row \in preferences : row.user_id = user_id>>
    ELSE <<>>

\* the first topic found in the content decides
AnyTopicIn(topics, content_lower) ==
    \E i \in 1..Len(topics) : Contains(content_lower, LowerText(topics[i]))

\* the loop body of rerank_results, scores in thousandths
Reranked(result, row) ==
    LET content_lower == LowerText(LowerText(result.chunk_text) \o <<" ">>
                                     \o result.metadata)
        boost_applied    == AnyTopicIn(row.boost_topics, content_lower)
        suppress_applied == AnyTopicIn(row.suppress_topics, content_lower)
        boosted == IF boost_applied
                   THEN (result.similarity_score * 13) \div 10
                   ELSE result.similarity_score
    IN  [memory_id |-> result.memory_id, content_type |-> result.content_type,
         chunk_text |-> result.chunk_text,
         similarity_score |-> IF suppress_applied THEN (boosted * 7) \div 10
                              ELSE boosted,
         metadata |-> result.metadata, created_at |-> result.created_at,
         rerank_applied |-> boost_applied \/ suppress_applied]

\* ReRankingService.rerank_results once the preferences are loaded
rerank_results(results, loaded) ==
    IF loaded = <<>>
       \/ (loaded[1].boost_topics = <<>> /\ loaded[1].suppress_topics = <<>>)
    THEN results
    ELSE SortByKey([i \in 1..Len(results) |-> Reranked(results[i], loaded[1])],
                   "similarity_score")

\* the topics a user may prefer
PreferenceInputs ==
    {[boost_topics |-> <<>>, suppress_topics |-> <<>>],
     [boost_topics |-> <<T_yo>>, suppress_topics |-> <<>>],
     [boost_topics |-> <<>>, suppress_topics |-> <<T_Hi>>]}

\* PreferencesService.create_preferences or update_preferences
PutPreferences(user_id, topics) ==
    /\ preferences' = {row \in preferences : row.user_id # user_id}
                        \cup {[user_id |-> user_id,
                               boost_topics |-> topics.boost_topics,
                               suppress_topics |-> topics.suppress_topics]}
    /\ op' = [name |-> "put_preferences", user_id |-> user_id]
    /\ UNCHANGED <<now, memories, embeddings, memory_access, summaries,
                   next_id, tx, conversations, messages, sse>>
    /\ UNCHANGED <<embVars, callVars, taskVars>>

\* the keys of a result the response shows
Shown(results) ==
    [i \in 1..Len(results) |->
        [memory_id |-> results[i].memory_id, chunk_text |-> results[i].chunk_text,
         similarity_score |-> results[i].similarity_score]]

\* GET /search after the embedding of the query; fail names the step that
\* raises: "embed", "rerank" (loading the preferences or scoring) or "none".
\* Any exception ends in the handler of the route, which answers 500.
Searched(e, results, user_id, top_k, fail) ==
    /\ SetSvc(e.s)
    /\ op' = [name |-> "search_memories", user_id |-> user_id, top_k |-> top_k,
              rerank_raised |-> ~e.raised /\ fail = "rerank",
              status |-> IF e.raised \/ fail = "rerank" THEN 500 ELSE 200,
              found |-> IF e.raised THEN <<>> ELSE Shown(results),
              results |-> IF e.raised \/ fail = "rerank" THEN <<>>
                          ELSE Shown(FirstN(rerank_results(results,
                                                get_preferences(user_id)),
                                            top_k))]

SearchEmbedded(e, user_id, top_k, content_type, fail) ==
    \E results \in IF e.raised THEN {<<>>}
                   ELSE search_memories(user_id, e.value, top_k * 2, content_type) :
        Searched(e, results, user_id, top_k, fail)

\* routes.search_memories
Search(q, user_id, top_k, content_type, fail) ==
    /\ stats.total_requests < MaxAskRequests
    /\ SearchEmbedded(embed_text(Svc, q, TRUE, cache_enabled, embedding_model,
                                 fail # "embed"),
                      user_id, top_k, content_type, fail)
    /\ UNCHANGED <<now, memories, embeddings, memory_access, summaries,
                   next_id, tx>>
    /\ UNCHANGED <<embedding_model, cache_enabled, callVars, chatVars, taskVars>>

SearchTopK == {1, 2}

\* searches beside uploads and changes of the preferences
NextSearch ==
    \/ \E user_id \in Users, upload \in AskUploads :
          CreateMemory(user_id, upload, 0, TRUE)
    \/ \E user_id \in Users, topics \in PreferenceInputs :
          PutPreferences(user_id, topics)
    \/ \E q \in {T_hi, T_yo}, user_id \in Users, top_k \in SearchTopK,
          content_type \in {None, "pdf"},
          fail \in {"none", "embed", "rerank"} :
          Search(q, user_id, top_k, content_type, fail)

SpecSearch == InitDefault /\ [][NextSearch]_vars

\* ------------------------------------------- context and sources together
\* retrieval results: two with the same text, one with no text
ContextResults ==
    {[memory_id |-> Uuid("memories", 1), content_type |-> "text",
      chunk_text |-> T_hi, similarity |-> 900],
     [memory_id |-> Uuid("memories", 2), content_type |-> "pdf",
      chunk_text |-> T_hi, similarity |-> 800],
     [memory_id |-> Uuid("memories", 3), content_type |-> "text",
      chunk_text |-> <<>>, similarity |-> 700],
     [memory_id |-> Uuid("memories", 4), content_type |-> "text",
      chunk_text |-> T_yo, similarity |-> 600]}

MaxResults == 3

MaxAnswerLen == 2

ResultLists == UNION {[1..n -> ContextResults] : n \in 0..MaxResults}

\* answers citing sources inside and outside the list
CitedAnswers ==
    UNION {[1..n -> {Word} \cup {Cite(k) : k \in 0..(MaxResults + 1)}] :
             n \in 0..MaxAnswerLen}

\* None, room for one block, room for two
TokenBudgets == {0, FormatTokens + Len(T_hi), 2 * (FormatTokens + Len(T_hi))}

\* a result list, a budget and an answer wait to be processed
InitContext ==
    /\ InitEmb /\ embedding_model = "uncased"
    /\ InitCall
    /\ InitChat
    /\ InitTask
    /\ now = 0
    /\ memories = {}
    /\ embeddings = {}
    /\ memory_access = {}
    /\ summaries = {}
    /\ next_id = 1
    /\ tx = NoTx
    /\ op \in [name : {"context_inputs"}, results : ResultLists,
               max_context_tokens : TokenBudgets, response : CitedAnswers]

\* build_context and extract_sources over one result list, as the ask
\* routes and answer_query call them
BuildAndExtract ==
    /\ op.name = "context_inputs"
    /\ op' = [name |-> "build_context", results |-> op.results,
              blocks |-> build_context(op.results, op.max_context_tokens, TRUE),
              sources |-> extract_sources(op.response, op.results)]
    /\ UNCHANGED <<now, memories, embeddings, memory_access, summaries,
                   next_id, tx>>
    /\ UNCHANGED <<embVars, callVars, chatVars, taskVars>>

NextContext == BuildAndExtract

SpecContext == InitContext /\ [][NextContext]_vars

\* ------------------------------------------------------------ ask routes
\* the contents the language model streams: a word, a citation, nothing
LmContents == {<<>>, <<Word>>, <<Cite(1)>>}

MaxLmLines == 2

\* the chunk generate_stream yields when the request to the model fails
ErrorChunk == <<[kind |-> "error", n |-> 0]>>

NonEmpty(content) == content # <<>>

\* LLMGenerator.generate_stream: the contents it yields for the lines of the
\* model, empty contents skipped; failed when the request breaks after them
generate_stream(lines, failed) ==
    SelectSeq(lines, NonEmpty) \o (IF failed THEN <<ErrorChunk>> ELSE <<>>)

RECURSIVE Concat(_)
Concat(chunks) == IF chunks = <<>> THEN <<>> ELSE Head(chunks) \o Concat(Tail(chunks))

ChunkEvent(chunk) == [type |-> "chunk", chunk |-> chunk]

DoneEvent(conversation_id, sources) ==
    [type |-> "done", conversation_id |-> conversation_id, sources |-> sources]

ErrorEvent == [type |-> "error"]

\* yield: the event goes out after those already sent
yield_first(events, event) == <<event>> \o events

yield(events, event) == Append(events, event)

\* the tables an ask request writes
ChatDb == [conversations |-> conversations, messages |-> messages]

\* the user message alone reaches the table, whatever the commit does
persist_user_message_first(db, request, user_id, conversation_id, question, answer, commit_ok) ==
    LET cid == IF conversation_id = <<>> THEN Cardinality(db.conversations) + 1
               ELSE conversation_id[1]
    IN  [ok |-> commit_ok, conversation_id |-> cid,
         conversations |-> db.conversations
                             \cup {[id |-> cid, user_id |-> user_id,
                                    request |-> request]},
         messages |-> db.messages
                        \o <<[conversation_id |-> cid, role |-> "user",
                              content |-> question, request |-> request]>>
                        \o (IF commit_ok
                            THEN <<[conversation_id |-> cid, role |-> "assistant",
                                    content |-> answer, request |-> request]>>
                            ELSE <<>>)]

\* the end of both ask routes: a Conversation when the request names none,
\* the user Message, the assistant Message, one commit.  The commit fails
\* when the database does (commit_ok) or when conversation_id names no
\* conversation; then nothing is inserted and the route raises.
persist_exchange(db, request, user_id, conversation_id, question, answer, commit_ok) ==
    LET new == conversation_id = <<>>
        cid == IF new THEN Cardinality(db.conversations) + 1
               ELSE conversation_id[1]
        ok  == commit_ok /\ (new \/ \E c \in db.conversations : c.id = cid)
    IN  IF ok
        THEN [ok |-> TRUE, conversation_id |-> cid,
              conversations |->
                  IF new
                  THEN db.conversations
                         \cup {[id |-> cid, user_id |-> user_id,
                                request |-> request]}
                  ELSE db.conversations,
              messages |-> db.messages
                  \o <<[conversation_id |-> cid, role |-> "user",
                        content |-> question, request |-> request],
                       [conversation_id |-> cid, role |-> "assistant",
                        content |-> answer, request |-> request]>>]
        ELSE [ok |-> FALSE, conversation_id |-> cid,
              conversations |-> db.conversations, messages |-> db.messages]

\* the state an event generator runs on: itself and the tables
Chat(s, db) == [sse |-> s, conversations |-> db.conversations,
                messages |-> db.messages]

SetChat(st) ==
    /\ sse' = st.sse
    /\ conversations' = st.conversations
    /\ messages' = st.messages

\* the chunk is stored as a partial assistant message as soon as it goes out
on_chunk_saving(st) ==
    [st EXCEPT !.sse.full_answer = Append(@, Head(st.sse.pending)),
               !.sse.events = yield(@, ChunkEvent(Head(st.sse.pending))),
               !.sse.pending = Tail(@),
               !.messages = Append(@, [conversation_id |-> 0,
                                        role |-> "assistant",
                                        content |-> Head(st.sse.pending),
                                        request |-> st.sse.request])]

\* one pass of the loop over generate_stream: the chunk joins the answer
\* and goes out as an event; the generator is then suspended at its yield
on_chunk(st) ==
    [st EXCEPT !.sse.full_answer = Append(@, Head(st.sse.pending)),
               !.sse.events = yield(@, ChunkEvent(Head(st.sse.pending))),
               !.sse.pending = Tail(@)]

\* after the last chunk: sources, rows, commit, then the terminal event, at
\* whose yield the generator is suspended once more; an exception ends in
\* the handler of the generator, which sends an error
Finished(st, saved) ==
    [st EXCEPT !.sse.pc = IF saved.ok THEN "ending" ELSE "failed",
               !.sse.events =
                   yield(@, IF saved.ok
                            THEN DoneEvent(saved.conversation_id,
                                           extract_sources(
                                               Concat(st.sse.full_answer),
                                               st.sse.results))
                            ELSE ErrorEvent),
               !.conversations = saved.conversations,
               !.messages = saved.messages]

on_end(st, commit_ok) ==
    Finished(st, persist_exchange([conversations |-> st.conversations,
                                   messages |-> st.messages],
                                  st.sse.request, st.sse.user_id,
                                  st.sse.conversation_id, st.sse.question,
                                  Concat(st.sse.full_answer), commit_ok))

\* users of the routes; the last is no row of table users
ChatUsers == {"u1", "nobody"}

\* the ask requests of a run
MaxChatRequests == 2

\* the retrieval results of an ask: one memory
ChatResults ==
    {<<[memory_id |-> Uuid("memories", 1), content_type |-> "text",
        chunk_text |-> T_hi, similarity |-> 900]>>}

\* no conversation, or the id of the first
ConversationIds == {<<>>, <<1>>}

\* the requests to the ask routes, one for every course: a missing user and
\* a failing embedding end the request before the model is asked
AskRequestsOf(users) ==
    {r \in [user_id : users, conversation_id : ConversationIds,
            embed_ok : BOOLEAN, results : ChatResults,
            lines : UNION {[1..n -> LmContents] : n \in 0..MaxLmLines},
            failed : BOOLEAN] :
        (r.user_id \notin Users \/ ~r.embed_ok) =>
            /\ r.lines = <<>> /\ ~r.failed /\ r.conversation_id = <<>>
            /\ (r.user_id \notin Users => r.embed_ok)}

AskRequests == AskRequestsOf(ChatUsers)

\* the history both ask routes read when the request names a conversation:
\* the messages of that conversation, whoever owns it
conversation_history(conversation_id) ==
    IF conversation_id = <<>> THEN <<>>
    ELSE LET rows == SelectSeq(messages,
                               LAMBDA m : m.conversation_id = conversation_id[1])
         IN  [i \in 1..Len(rows) |->
                 [role |-> rows[i].role, content |-> rows[i].content]]

\* the generator up to the loop over generate_stream
Begun(e, r) ==
    [pc |-> IF r.user_id \in Users /\ ~e.raised THEN "streaming" ELSE "failed",
     request |-> sse.served + 1,
     served |-> sse.served + 1,
     user_id |-> r.user_id, question |-> T_hi,
     conversation_id |-> r.conversation_id,
     results |-> r.results,
     generated |-> generate_stream(r.lines, r.failed),
     pending |-> generate_stream(r.lines, r.failed),
     full_answer |-> <<>>,
     events |-> IF r.user_id \in Users /\ ~e.raised THEN <<>>
                ELSE <<ErrorEvent>>]

StreamEmbedded(e, r) ==
    /\ SetSvc(e.s)
    /\ sse' = Begun(e, r)

\* POST /ask/stream: the generator starts
StreamBegin(r) ==
    /\ sse.pc \notin {"streaming", "ending"}
    /\ sse.served < MaxChatRequests
    /\ IF r.user_id \in Users
       THEN StreamEmbedded(embed_text(Svc, T_hi, TRUE, cache_enabled,
                                      embedding_model, r.embed_ok), r)
       ELSE StreamEmbedded([s |-> Svc, raised |-> FALSE], r)
    /\ op' = [name |-> "ask_question_stream", user_id |-> r.user_id,
              conversation_id |-> r.conversation_id,
              history |-> IF r.user_id \in Users
                          THEN conversation_history(r.conversation_id)
                          ELSE <<>>]
    /\ UNCHANGED <<now, memories, embeddings, memory_access, summaries,
                   next_id, tx, preferences, conversations, messages>>
    /\ UNCHANGED <<embedding_model, cache_enabled, callVars, taskVars>>

chatOnly == <<now, memories, embeddings, memory_access, summaries, next_id,
              tx, preferences, embVars, callVars, taskVars>>

\* the consumer takes the next event: a chunk of the answer
StreamChunk ==
    /\ sse.pc = "streaming"
    /\ sse.pending # <<>>
    /\ SetChat(on_chunk(Chat(sse, ChatDb)))
    /\ op' = [name |-> "chunk"]
    /\ UNCHANGED chatOnly

\* the consumer takes the next event and the model has no more chunks
StreamEnd(commit_ok) ==
    /\ sse.pc = "streaming"
    /\ sse.pending = <<>>
    /\ SetChat(on_end(Chat(sse, ChatDb), commit_ok))
    /\ op' = [name |-> "end"]
    /\ UNCHANGED chatOnly

\* the terminal event is out and the generator returns
StreamReturn ==
    /\ sse.pc = "ending"
    /\ sse' = [sse EXCEPT !.pc = "done"]
    /\ op' = [name |-> "return"]
    /\ UNCHANGED <<conversations, messages>>
    /\ UNCHANGED chatOnly

\* the client goes away while the generator is suspended at a yield, of a
\* chunk or of the terminal event: the generator is closed there, and its
\* session with it
StreamAbort ==
    /\ sse.pc \in {"streaming", "ending"}
    /\ sse.events # <<>>
    /\ sse' = [sse EXCEPT !.pc = "aborted"]
    /\ op' = [name |-> "abort"]
    /\ UNCHANGED <<conversations, messages>>
    /\ UNCHANGED chatOnly

\* POST /ask once the question is embedded
Asked(e, r, saved, commit_ok) ==
    /\ SetSvc(e.s)
    /\ conversations' = IF r.user_id \in Users /\ ~e.raised
                        THEN saved.conversations ELSE conversations
    /\ messages' = IF r.user_id \in Users /\ ~e.raised
                   THEN saved.messages ELSE messages
    /\ sse' = [sse EXCEPT !.served = @ + 1]
    /\ op' = [name |-> "ask_question", user_id |-> r.user_id,
              conversation_id |-> r.conversation_id,
              history |-> IF r.user_id \in Users
                          THEN conversation_history(r.conversation_id)
                          ELSE <<>>,
              status |-> IF r.user_id \notin Users THEN 404
                         ELSE IF e.raised \/ ~saved.ok THEN 500
                         ELSE 200]

AskEmbedded(e, r, commit_ok) ==
    Asked(e, r,
          persist_exchange(ChatDb, sse.served + 1, r.user_id,
                           r.conversation_id, T_hi,
                           IF r.failed THEN generate(<<>>)
                           ELSE generate(<<Concat(r.lines)>>),
                           commit_ok),
          commit_ok)

\* POST /ask
Ask(r, commit_ok) ==
    /\ sse.served < MaxChatRequests
    /\ IF r.user_id \in Users
       THEN AskEmbedded(embed_text(Svc, T_hi, TRUE, cache_enabled,
                                   embedding_model, r.embed_ok), r, commit_ok)
       ELSE AskEmbedded([s |-> Svc, raised |-> FALSE], r, commit_ok)
    /\ UNCHANGED <<now, memories, embeddings, memory_access, summaries,
                   next_id, tx, preferences>>
    /\ UNCHANGED <<embedding_model, cache_enabled, callVars, taskVars>>

NextChat ==
    \/ \E r \in AskRequests : StreamBegin(r)
    \/ StreamChunk
    \/ \E commit_ok \in BOOLEAN : StreamEnd(commit_ok)
    \/ StreamReturn
    \/ StreamAbort
    \/ \E r \in AskRequests, commit_ok \in BOOLEAN : Ask(r, commit_ok)

SpecChat == InitDefault /\ [][NextChat]_vars

\* requests of two users of the service, with and without a conversation
OwnerRequests ==
    {r \in AskRequestsOf(Users) :
        r.embed_ok /\ ~r.failed /\ r.lines = <<<<Word>>>>}

\* two users ask, each request naming no conversation or the first one
NextOwner ==
    \/ \E r \in OwnerRequests : StreamBegin(r)
    \/ StreamChunk
    \/ \E commit_ok \in BOOLEAN : StreamEnd(commit_ok)
    \/ StreamReturn
    \/ \E r \in OwnerRequests, commit_ok \in BOOLEAN : Ask(r, commit_ok)

SpecOwner == InitDefault /\ [][NextOwner]_vars

\* ------------------------------------------------------------ score fusion
\* HybridSearchEngine: rankings are lists of (doc_id, score) pairs; scores
\* are kept in thousandths, fused scores in millionths
One == 1000

Pair(id, score) == [id |-> id, score |-> score]

IdsOf(results) == [i \in 1..Len(results) |-> results[i].id]

\* dict(results).get(doc_id, 0.0): the last pair of an id wins
DictGet(results, doc_id) ==
    IF \E i \in 1..Len(results) : results[i].id = doc_id
    THEN results[MaxOf({i \in 1..Len(results) : results[i].id = doc_id})].score
    ELSE 0

\* HybridSearchEngine.normalize_scores
normalize_scores(scores) ==
    IF scores = <<>>
           \/ MaxOf({scores[i] : i \in 1..Len(scores)})
                  = MinOf({scores[i] : i \in 1..Len(scores)})
    THEN [i \in 1..Len(scores) |-> One]
    ELSE LET min_score == MinOf({scores[i] : i \in 1..Len(scores)})
             max_score == MaxOf({scores[i] : i \in 1..Len(scores)})
         IN  [i \in 1..Len(scores) |->
                 ((scores[i] - min_score) * One) \div (max_score - min_score)]

\* the orders in which a set of strings may be iterated
RECURSIVE Orders(_)
Orders(S) ==
    IF S = {} THEN {<<>>}
    ELSE UNION {{<<x>> \o rest : rest \in Orders(S \ {x})} : x \in S}

\* weighted_fusion for one iteration order of all_doc_ids
Combined(all_doc_ids, vector_results, bm25_results, alpha) ==
    LET vector_scores == [i \in 1..Len(all_doc_ids) |->
                             DictGet(vector_results, all_doc_ids[i])]
        bm25_scores   == [i \in 1..Len(all_doc_ids) |->
                             DictGet(bm25_results, all_doc_ids[i])]
    IN  [i \in 1..Len(all_doc_ids) |->
            Pair(all_doc_ids[i],
                 alpha * normalize_scores(vector_scores)[i]
                     + (One - alpha) * normalize_scores(bm25_scores)[i])]

\* self.alpha of the shared engine
DefaultAlpha == 700

\* HybridSearchEngine.weighted_fusion: the lists it can return; a negative
\* alpha stands for None
weighted_fusion(vector_results, bm25_results, alpha) ==
    {SortByKey(Combined(all_doc_ids, vector_results, bm25_results,
                        IF alpha < 0 THEN DefaultAlpha ELSE alpha), "score") :
        all_doc_ids \in Orders({vector_results[i].id : i \in 1..Len(vector_results)}
                               \cup {bm25_results[i].id : i \in 1..Len(bm25_results)})}

\* longest ranking handed to a fusion
MaxDocs == 2

RECURSIVE Product(_, _)
Product(a, b) == IF a > b THEN 1 ELSE a * Product(a + 1, b)

\* reciprocal ranks are kept as multiples of 1 / RrfUnit(k)
RrfUnit(k) == Product(k, k + MaxDocs)

\* the term one occurrence of an id at a rank (from 0) adds to its score
rrf_term_rank0(k, rank) == RrfUnit(k) \div (k + rank)

rrf_term(k, rank) == RrfUnit(k) \div (k + rank + 1)

\* sum of the terms of the ranks at which doc_id stands in results
RrfSum(results, doc_id, k) ==
    SumSeq([i \in 1..Len(results) |->
               IF results[i].id = doc_id THEN rrf_term(k, i - 1) ELSE 0])

\* the keys of a dict in insertion order
RECURSIVE Keys(_, _)
Keys(ids, seen) ==
    IF ids = <<>> THEN <<>>
    ELSE IF Head(ids) \in seen THEN Keys(Tail(ids), seen)
    ELSE <<Head(ids)>> \o Keys(Tail(ids), seen \cup {Head(ids)})

\* HybridSearchEngine.reciprocal_rank_fusion
reciprocal_rank_fusion(vector_results, bm25_results, k) ==
    LET doc_ids == Keys(IdsOf(vector_results) \o IdsOf(bm25_results), {})
    IN  SortByKey([i \in 1..Len(doc_ids) |->
                      Pair(doc_ids[i],
                           RrfSum(vector_results, doc_ids[i], k)
                               + RrfSum(bm25_results, doc_ids[i], k))],
                  "score")

\* the default of parameter k
RrfK == 60

DocIds == {"a", "b", "c"}

\* similarities and lexical scores of the rankings tried
DenseScores == {800, 900}

LexicalScores == {2000, 10000}

\* rankings as the stages produce them: no id twice, best score first
Rankings(scores) ==
    {r \in UNION {[1..n -> [id : DocIds, score : scores]] : n \in 0..MaxDocs} :
        \A i, j \in 1..Len(r) :
            i < j => (r[i].id # r[j].id /\ r[i].score >= r[j].score)}

Alphas == {-1, 500, 1000}

\* two rankings and a weight wait to be fused
InitFusion ==
    /\ InitEmb /\ embedding_model = "uncased"
    /\ InitCall
    /\ InitChat
    /\ InitTask
    /\ now = 0
    /\ memories = {}
    /\ embeddings = {}
    /\ memory_access = {}
    /\ summaries = {}
    /\ next_id = 1
    /\ tx = NoTx
    /\ op \in [name : {"fusion_inputs"}, vector_results : Rankings(DenseScores),
               bm25_results : Rankings(LexicalScores), alpha : Alphas]

\* both fusions of the rankings that wait
Fuse ==
    /\ op.name = "fusion_inputs"
    /\ \E fused \in weighted_fusion(op.vector_results, op.bm25_results, op.alpha) :
          op' = [name |-> "fusion",
                 vector_results |-> op.vector_results,
                 bm25_results |-> op.bm25_results,
                 alpha |-> op.alpha,
                 weighted |-> fused,
                 rrf |-> reciprocal_rank_fusion(op.vector_results,
                                                op.bm25_results, RrfK)]
    /\ UNCHANGED <<now, memories, embeddings, memory_access, summaries,
                   next_id, tx>>
    /\ UNCHANGED <<embVars, callVars, chatVars, taskVars>>

NextFusion == Fuse

SpecFusion == InitFusion /\ [][NextFusion]_vars

\* ---------------------------------------------------------------- clusters
\* create_memory called with an empty list of chunks: a memory without any
\* chunk embedding
BareUpload == [content_type |-> "text", content |-> DiaryContent, chunks |-> <<>>]

ClusterUploads == Uploads \cup {BareUpload}

GroupIds(groups) ==
    [g \in 1..Len(groups) |-> [i \in 1..Len(groups[g]) |-> groups[g][i].id]]

\* _cluster_memories on the memories consolidate_memories selects for the user
Cluster(user_id, pick) ==
    /\ memories_to_consolidate(user_id) # <<>>
    /\ op' = [name |-> "cluster_memories",
              pick |-> pick,
              selected |-> [i \in 1..Len(memories_to_consolidate(user_id)) |->
                               memories_to_consolidate(user_id)[i].id],
              groups |-> GroupIds(cluster_memories(
                                      memories_to_consolidate(user_id), pick))]
    /\ UNCHANGED <<now, memories, embeddings, memory_access, summaries,
                   next_id, tx>>
    /\ UNCHANGED <<embVars, callVars, chatVars, taskVars>>

NextCluster ==
    \/ \E upload \in ClusterUploads : CreateMemory("u1", upload, 0, TRUE)
    \/ Advance(consolidation_threshold_days + 1)
    \/ \E pick \in [1..MaxIds -> 0..(MaxChunks - 1)] : Cluster("u1", pick)

SpecCluster == InitDefault /\ [][NextCluster]_vars

\* -------------------------------------------------------------- long decay
\* the age, in days, up to which memories are followed while they decay
MaxAge == 62

\* time passes, beyond the horizon of the other behaviours
Elapse(days) ==
    /\ now + days <= MaxAge
    /\ now' = now + days
    /\ op' = [name |-> "advance"]
    /\ UNCHANGED <<memories, embeddings, memory_access, summaries, next_id, tx>>
    /\ UNCHANGED <<embVars, callVars, chatVars, taskVars>>

\* forgetting among memories that grow old, with and without accesses
NextDecay ==
    \/ \E upload \in Uploads : CreateMemory("u1", upload, 0, TRUE)
    \/ \E memory_id \in 1..MaxIds : RecordAccess(memory_id)
    \/ Elapse(consolidation_threshold_days + 1)
    \/ \E threshold \in ThresholdInputs : Forget("u1", threshold)

SpecDecay == InitDefault /\ [][NextDecay]_vars

\* ------------------------------------------- hybrid search and retrieval
T_cat == <<"c", "a", "t">>
T_dog == <<"d", "o", "g">>

\* BM25Ranker.tokenize: lowercase, split, drop the tokens of length <= 2
\* (the texts hold no character outside \w and \s)
tokenize(text) == SelectSeq(Split(LowerText(text)), LAMBDA t : Len(t) > 2)

\* BM25Ranker.fit with the corpus left as it was: the index persists
fit_once(ranker, documents) ==
    IF ranker.is_fitted THEN ranker
    ELSE [corpus_texts |-> [i \in 1..Len(documents) |-> documents[i].text],
          corpus_ids |-> [i \in 1..Len(documents) |-> documents[i].id],
          is_fitted |-> documents # <<>>]

\* BM25Ranker.fit; self.bm25 is the index of corpus_texts
fit(ranker, documents) ==
    IF documents = <<>> THEN [ranker EXCEPT !.is_fitted = FALSE]
    ELSE LET kept == SelectSeq(documents, LAMBDA doc : doc.text # <<>>)
         IN  [corpus_texts |-> [i \in 1..Len(kept) |-> kept[i].text],
              corpus_ids |-> [i \in 1..Len(kept) |-> kept[i].id],
              is_fitted |-> kept # <<>>]

\* BM25Okapi.get_scores, an external collaborator: a document that shares no
\* token with the query scores 0, another one scores by the statistics of
\* the corpus, below, at or above 0
BM25Scores == {-500, 0, 1500}

Shares(text, tokenized_query) ==
    \E i \in 1..Len(tokenized_query) : InSeq(tokenize(text), tokenized_query[i])

get_scores(ranker, tokenized_query) ==
    {scores \in [1..Len(ranker.corpus_texts) -> BM25Scores] :
        \A i \in 1..Len(ranker.corpus_texts) :
            ~Shares(ranker.corpus_texts[i], tokenized_query) => scores[i] = 0}

\* BM25Ranker.search after get_scores returned scores
bm25_search(ranker, query, top_k, scores) ==
    IF ~ranker.is_fitted \/ tokenize(query) = <<>> THEN <<>>
    ELSE SelectSeq(FirstN(SortByKey([i \in 1..Len(ranker.corpus_ids) |->
                                        Pair(ranker.corpus_ids[i], scores[i])],
                                    "score"),
                          top_k),
                   LAMBDA pair : pair.score > 0)

\* the rows of _vector_search: id stands for str(embedding_id)
VectorRow(e, query_embedding) ==
    [id |-> <<e.memory_id, e.chunk_index>>, chunk_text |-> e.chunk_text,
     memory_id |-> e.memory_id,
     similarity |-> Similarity(e.embedding, query_embedding)]

\* HybridSearchEngine._vector_search: the lists the database can return
_vector_search(user_id, query_embedding, top_k) ==
    LET found == [e \in {x \in embeddings :
                           \E m \in memories :
                               m.id = x.memory_id /\ m.user_id = user_id} |->
                     VectorRow(e, query_embedding)]
    IN  {MapSeq(a, found) :
           a \in NearestFirst(DOMAIN found,
                              [e \in DOMAIN found |-> found[e].similarity],
                              top_k)}

\* settings.RAG_MIN_SIMILARITY, in thousandths
min_similarity == 300

\* embedding requests after which no retrieval starts
MaxRetrieveRequests == 2

\* the documents handed to the ranker
Documents(vector_results) ==
    [i \in 1..Len(vector_results) |->
        [id |-> vector_results[i].id, text |-> vector_results[i].chunk_text]]

VectorTuples(vector_results) ==
    [i \in 1..Len(vector_results) |->
        Pair(vector_results[i].id, vector_results[i].similarity)]

\* embedding_id_map[embedding_id] with its hybrid_score
Scored(vector_results, pair) ==
    LET r == vector_results[MaxOf({i \in 1..Len(vector_results) :
                                      vector_results[i].id = pair.id})]
    IN  [id |-> r.id, chunk_text |-> r.chunk_text, memory_id |-> r.memory_id,
         similarity |-> r.similarity, hybrid_score |-> pair.score]

\* final_results of HybridSearchEngine.search
FinalResults(vector_results, fused_results, top_k) ==
    LET kept == SelectSeq(FirstN(fused_results, top_k),
                          LAMBDA pair : \E i \in 1..Len(vector_results) :
                                            vector_results[i].id = pair.id)
    IN  [i \in 1..Len(kept) |-> Scored(vector_results, kept[i])]

\* filtered_results of Retriever.retrieve
Filtered(local_results) ==
    SelectSeq(local_results,
              LAMBDA r : r.similarity >= min_similarity \/ r.hybrid_score > 0)

\* Retriever.retrieve up to the suspension of HybridSearchEngine.search in
\* _vector_search: the query is embedded and the database answers
Retrieving(t, e, user_id, query, top_k, enable_web) ==
    /\ SetSvc(e.s)
    /\ \E vector_results \in _vector_search(user_id, e.value, top_k * 2) :
          searches' = [searches EXCEPT ![t] =
                          [pc |-> "vector", user_id |-> user_id,
                           query |-> query, top_k |-> top_k,
                           enable_web |-> enable_web,
                           vector_results |-> vector_results]]
    /\ op' = [name |-> "retrieve", task |-> t]

RetrieveBegin(t, user_id, query, top_k, enable_web) ==
    /\ searches[t].pc = "idle"
    /\ stats.total_requests < MaxRetrieveRequests
    /\ Retrieving(t, embed_text(Svc, query, TRUE, cache_enabled,
                                embedding_model, TRUE),
                  user_id, query, top_k, enable_web)
    /\ UNCHANGED <<now, memories, embeddings, memory_access, summaries,
                   next_id, tx>>
    /\ UNCHANGED <<embedding_model, cache_enabled, callVars, chatVars>>
    /\ UNCHANGED <<bm25_ranker, web_sources, web_calls, jobs>>

\* what the search of task t leaves once the lexical and the fused ranking
\* are known: the local results go back to retrieve, which filters them and
\* either returns or goes on to the web search
Searched_hybrid(t, ranker, bm25_results, fused_results) ==
    LET s == searches[t]
        local_results ==
            Filtered(FinalResults(s.vector_results, fused_results, s.top_k))
    IN  /\ bm25_ranker' = ranker
        /\ searches' = [searches EXCEPT ![t] =
                           IF s.enable_web
                           THEN [pc |-> "web", user_id |-> s.user_id,
                                 query |-> s.query,
                                 local_results |-> local_results]
                           ELSE Idle]
        /\ op' = [name |-> "hybrid_search", task |-> t, user_id |-> s.user_id,
                  enable_web |-> s.enable_web,
                  candidates |-> IdsOf(s.vector_results),
                  corpus_ids |-> ranker.corpus_ids,
                  bm25_results |-> bm25_results,
                  local_results |-> local_results]

\* HybridSearchEngine.search from the return of _vector_search to its end:
\* fit, lexical search, fusion and the cut to top_k run with no suspension
SearchResume(t) ==
    /\ searches[t].pc = "vector"
    /\ IF searches[t].vector_results = <<>>
       THEN Searched_hybrid(t, bm25_ranker, <<>>, <<>>)
       ELSE \E scores \in get_scores(fit(bm25_ranker,
                                         Documents(searches[t].vector_results)),
                                     tokenize(searches[t].query)) :
            \E fused_results \in
                  weighted_fusion(
                      VectorTuples(searches[t].vector_results),
                      bm25_search(fit(bm25_ranker,
                                      Documents(searches[t].vector_results)),
                                  searches[t].query, searches[t].top_k * 2,
                                  scores),
                      -1) :
                Searched_hybrid(t,
                                fit(bm25_ranker,
                                    Documents(searches[t].vector_results)),
                                bm25_search(fit(bm25_ranker,
                                                Documents(searches[t].vector_results)),
                                            searches[t].query,
                                            searches[t].top_k * 2, scores),
                                fused_results)
    /\ UNCHANGED <<now, memories, embeddings, memory_access, summaries,
                   next_id, tx>>
    /\ UNCHANGED <<embVars, callVars, chatVars>>
    /\ UNCHANGED <<web_sources, web_calls, jobs>>

\* the page the web search adapter finds, and the text scraped from it
Url == "url"
T_page == <<"p", "a", "g", "e">>

\* what the adapters answer: the search raises, finds nothing or finds Url,
\* whose scraped content is longer than 100 characters or not
WebOutcomes == {"raise", "none", "page", "short"}

WebResult(source) == [content_type |-> "web", source |-> source, similarity |-> 0]

\* Retriever._search_web once the adapters answered; e is the embedding of
\* the scraped content, asked for only when a fresh page is long enough
SearchedWeb(t, outcome, e) ==
    LET s      == searches[t]
        cached == \E row \in web_sources : row.url = Url
        fresh  == outcome = "page" /\ ~cached
    IN  /\ SetSvc(IF fresh THEN e.s ELSE Svc)
        /\ web_sources' = IF fresh /\ ~e.raised
                          THEN web_sources \cup {[url |-> Url, content |-> T_page]}
                          ELSE web_sources
        /\ web_calls' = Append(web_calls,
                               [task |-> t, user_id |-> s.user_id,
                                enable_web |-> TRUE,
                                local_hits |-> Len(s.local_results)])
        /\ searches' = [searches EXCEPT ![t] = Idle]
        /\ op' = [name |-> "search_web", task |-> t, user_id |-> s.user_id,
                  local_results |-> s.local_results,
                  cached |-> fresh /\ ~e.raised,
                  web_results |->
                      IF outcome \in {"page", "short"} /\ cached
                      THEN <<WebResult("web_cache")>>
                      ELSE IF fresh /\ ~e.raised
                      THEN <<WebResult("web_scraped")>>
                      ELSE <<>>]

\* the rest of Retriever.retrieve when enable_web is set: the web search,
\* whatever the number of local results
SearchWeb(t, outcome) ==
    /\ searches[t].pc = "web"
    /\ SearchedWeb(t, outcome,
                   embed_text(Svc, T_page, TRUE, cache_enabled, embedding_model,
                              TRUE))
    /\ UNCHANGED <<now, memories, embeddings, memory_access, summaries,
                   next_id, tx>>
    /\ UNCHANGED <<embedding_model, cache_enabled, callVars, chatVars>>
    /\ UNCHANGED <<bm25_ranker, jobs>>

\* the uploads searched: images whose texts hold words the ranker keeps
HybridUploads ==
    {[content_type |-> "image", content |-> OcrContent,
      chunks |-> <<DictChunk(T_cat, Vec(ClipDim, <<0, 1000>>))>>],
     [content_type |-> "image", content |-> OcrContent,
      chunks |-> <<DictChunk(T_dog, Vec(ClipDim, <<600, 800>>))>>]}

RetrieveTopK == {1, 2}

\* retrievals of two requests in flight beside uploads
NextHybrid ==
    \/ \E user_id \in Users, upload \in HybridUploads :
          CreateMemory(user_id, upload, 0, TRUE)
    \/ \E t \in Tasks, user_id \in Users, top_k \in RetrieveTopK,
          enable_web \in BOOLEAN :
          RetrieveBegin(t, user_id, T_cat, top_k, enable_web)
    \/ \E t \in Tasks : SearchResume(t)
    \/ \E t \in Tasks, outcome \in WebOutcomes : SearchWeb(t, outcome)

SpecHybrid == InitDefault /\ [][NextHybrid]_vars

\* ------------------------------------------- overlapping consolidations
\* consolidate_memories up to the answer of its selection: the call holds
\* the memories selected while other calls run; seen are the summaries
\* committed so far
ConsolidateBegin(t, user_id) ==
    /\ jobs[t].pc = "idle"
    /\ stats.total_requests < MaxStoreRequests
    /\ jobs' = [jobs EXCEPT ![t] =
                   [pc |-> "selected", user_id |-> user_id,
                    selected |-> memories_to_consolidate(user_id),
                    seen |-> {s.id : s \in summaries}]]
    /\ op' = [name |-> "consolidate_select", task |-> t, user_id |-> user_id]
    /\ UNCHANGED <<now, memories, embeddings, memory_access, summaries,
                   next_id, tx>>
    /\ UNCHANGED <<embVars, callVars, chatVars>>
    /\ UNCHANGED <<bm25_ranker, searches, web_sources, web_calls>>

\* the end of the call of task t: commit, or nothing when a group raised
ConsolidateDone(t, built, groups) ==
    /\ SetSvc(built.s)
    /\ summaries' = IF built.raised THEN summaries
                    ELSE summaries \cup built.value
    /\ jobs' = [jobs EXCEPT ![t] = Idle]
    /\ op' = [name |-> "consolidate_commit", task |-> t,
              user_id |-> jobs[t].user_id, raised |-> built.raised,
              selected |-> {jobs[t].selected[i].id :
                               i \in 1..Len(jobs[t].selected)},
              seen |-> jobs[t].seen,
              created |-> IF built.raised THEN {}
                          ELSE {s.id : s \in built.value},
              groups |-> groups]

ConsolidateClustered(t, memory_groups, llm_ok, fail_at) ==
    /\ fail_at <= Len(memory_groups)
    /\ Cardinality(summaries) + Len(memory_groups) <= MaxSummaries
    /\ ConsolidateDone(t,
                       SummariesFrom(memory_groups, 1, Svc, {},
                                     jobs[t].user_id, llm_ok, fail_at),
                       Len(memory_groups))

\* consolidate_memories from the answer of the selection to the commit:
\* clustering, one summary for each group, commit
ConsolidateFinish(t, pick, llm_ok, fail_at) ==
    /\ jobs[t].pc = "selected"
    /\ ConsolidateClustered(t, cluster_memories(jobs[t].selected, pick),
                            llm_ok, fail_at)
    /\ UNCHANGED <<now, memories, embeddings, memory_access, next_id, tx>>
    /\ UNCHANGED <<cache_enabled, embedding_model>>
    /\ UNCHANGED <<callVars, chatVars>>
    /\ UNCHANGED <<bm25_ranker, searches, web_sources, web_calls>>

\* two callers of consolidate_memories beside uploads
NextOverlap ==
    \/ \E user_id \in Users, upload \in AskUploads :
          CreateMemory(user_id, upload, 0, TRUE)
    \/ Advance(consolidation_threshold_days + 1)
    \/ \E t \in Tasks, user_id \in Users : ConsolidateBegin(t, user_id)
    \/ \E t \in Tasks, pick \in [1..MaxIds -> 0..(MaxChunks - 1)],
          llm_ok \in BOOLEAN :
          ConsolidateFinish(t, pick, llm_ok, 0)

SpecOverlap == InitDefault /\ [][NextOverlap]_vars

\* ------------------------------------------------------------------ claims
\* The least recently used key among those cached: the first cached key of
\* use_order, where an insertion and a get hit are the uses.
Sources(sm) == {sm.source_memory_ids[i] : i \in 1..Len(sm.source_memory_ids)}

\* C1: every memory id occurs in the source_memory_ids of at most one
\* MemorySummary, so a second consolidate_memories with no memory created in
\* between adds no summary.
C1_AtMostOneSummaryPerMemory ==
    \A id \in 1..MaxIds :
        Cardinality({sm \in summaries : id \in Sources(sm)}) <= 1

\* C2: every memory that a run of consolidate_memories(user) selects belongs
\* to that user, is episodic, was created more than 30 days before now and is
\* referenced by no summary that existed before the run; at most 50 are
\* selected.
C2_SelectionCriteria ==
    [][ (op'.name = "consolidate_memories" /\ ~op'.raised) =>
          /\ Cardinality(op'.selected) <= ConsolidationLimit
          /\ \A id \in op'.selected :
                /\ \E m \in memories :
                      /\ m.id = id
                      /\ m.user_id = op'.user_id
                      /\ m.memory_type = "episodic"
                      /\ m.created_at < now - consolidation_threshold_days
                /\ \A sm \in summaries : id \notin Sources(sm) ]_vars

\* C3: a sweep of forget_unimportant_memories removes every memory of the
\* user that is older than 30 days and whose importance is below the
\* threshold at that moment; recording an access to a memory strictly
\* increases its importance.
C3_ForgetBelowThresholdAccessRaises ==
    [][ /\ (op'.name = "forget_unimportant_memories") =>
              \A m \in memories :
                 ( /\ m.user_id = op'.user_id
                   /\ m.created_at < now - consolidation_threshold_days
                   /\ get_memory_importance(m.id) < op'.threshold )
                 => m.id \notin {x.id : x \in memories'}
        /\ (op'.name = "record_memory_access" /\ ~op'.raised) =>
              ImportanceIn(memories', embeddings', memory_access', op'.id, now')
                 > get_memory_importance(op'.id) ]_vars

\* a sweep has deleted a memory while an old memory of the same user, which
\* without its recorded access would be below the threshold, is still there
C3_Witness ==
    /\ op.name = "forget_unimportant_memories"
    /\ op.forgotten # {}
    /\ \E m \in memories :
          /\ m.user_id = op.user_id
          /\ m.created_at < now - consolidation_threshold_days
          /\ AccessesOf(memory_access, m.id) # {}
          /\ ImportanceIn(memories, embeddings, {}, m.id, now) < op.threshold

\* C4: no MemorySummary exists all of whose source memories have been
\* deleted.
C4_SummaryKeepsASource ==
    \A sm \in summaries : \E id \in Sources(sm) : id \in MemoryIds

\* C5: no Embedding row and no MemoryAccess row references a memory that has
\* been deleted, by delete_memory or by the forgetting sweep.
C5_DeleteCascades ==
    /\ \A e \in embeddings : e.memory_id \in MemoryIds
    /\ \A a \in memory_access : a.memory_id \in MemoryIds

\* the sweep has just deleted a memory that had chunks and a recorded access
C5_Witness ==
    /\ op.name = "forget_unimportant_memories"
    /\ op.forgotten # {}
    /\ op.accesses > 0

\* C6: create_memory is all-or-nothing: while its transaction is open, and
\* after it raised, the store holds neither the memory nor a chunk of it; an
\* encoder failure makes it raise; after it returned, the memory and exactly
\* its chunks 0..n-1 are there; no memory is ever visible without chunks.
C6_CreateAllOrNothing ==
    /\ tx.open =>
          /\ tx.memory.id \notin MemoryIds
          /\ ChunksOf(embeddings, tx.memory.id) = {}
    /\ (op.name = "create_memory" /\ op.encoder_failed) => op.raised
    /\ (op.name = "create_memory" /\ op.raised) =>
          /\ op.id \notin MemoryIds
          /\ ChunksOf(embeddings, op.id) = {}
    /\ (op.name = "create_memory" /\ ~op.raised) =>
          /\ op.id \in MemoryIds
          /\ {e.chunk_index : e \in ChunksOf(embeddings, op.id)} = 0..(op.chunks - 1)
          /\ Cardinality(ChunksOf(embeddings, op.id)) = op.chunks
    /\ \A m \in memories : ChunksOf(embeddings, m.id) # {}

\* the first create_memory embedded its first chunk, failed on the second
\* and raised
C6_Witness ==
    /\ op.name = "create_memory"
    /\ op.id = 1
    /\ op.raised
    /\ op.encoder_failed
    /\ op.chunks = 2
    /\ stats.total_texts_embedded = 1

\* C7: every persisted chunk embedding has exactly 512 dimensions, whether
\* the service embedded the chunk text or the chunk arrived with its
\* embedding.
C7_PersistedDimension ==
    \A e \in embeddings : e.embedding.dim = 512

\* a text memory embedded by the service and an image memory with a
\* pre-computed embedding are both persisted
C7_Witness ==
    /\ \E m \in memories : m.content_type = "text" /\ ChunksOf(embeddings, m.id) # {}
    /\ \E m \in memories : m.content_type = "image" /\ ChunksOf(embeddings, m.id) # {}
    /\ stats.total_texts_embedded > 0

\* the rows of a result list with the given memory_type
RowsOfType(results, memory_type) ==
    {i \in 1..Len(results) : results[i].memory_type = memory_type}

\* C11: retrieve_with_hierarchy returns at most top_k rows sorted by
\* similarity descending; its episodic rows are the floor(top_k/2) chunks
\* nearest to the query among the user's episodic memories of the last 7
\* days, its semantic rows the floor(top_k/2) nearest summaries of the user.
C11_NearestHalves ==
    (op.name = "retrieve_with_hierarchy") =>
      LET results == op.results
          half == op.top_k \div 2
          chunks == {e \in EpisodicRows(op.user_id) :
                        MemoryById(e.memory_id).memory_type = "episodic"}
          sums == IF op.include_summaries THEN SummaryRows(op.user_id) ELSE {}
          shown(table, id, text) ==
              \E i \in 1..Len(results) :
                  /\ results[i].memory_id = Uuid(table, id)
                  /\ results[i].chunk_text = text
      IN  /\ Len(results) <= op.top_k
          /\ \A i \in 1..(Len(results) - 1) :
                results[i].similarity >= results[i + 1].similarity
          /\ Cardinality(RowsOfType(results, "episodic"))
                = Min(half, Cardinality(chunks))
          /\ Cardinality(RowsOfType(results, "semantic"))
                = Min(half, Cardinality(sums))
          /\ \A i \in RowsOfType(results, "episodic") :
                \A e \in chunks :
                    shown("memories", e.memory_id, e.chunk_text)
                    \/ Similarity(e.embedding, op.query_embedding)
                          <= results[i].similarity
          /\ \A i \in RowsOfType(results, "semantic") :
                \A sm \in sums :
                    shown("memory_summaries", sm.id, sm.summary_text)
                    \/ Similarity(sm.summary_embedding, op.query_embedding)
                          <= results[i].similarity

\* the cached key whose last use (insertion or get hit) is the oldest
LeastRecentlyUsed ==
    LET cached == {i \in 1..Len(use_order) : use_order[i] \in DOMAIN cache}
    IN  use_order[CHOOSE i \in cached : \A j \in cached : i <= j]

C9_SecondCallHitsCache ==
    [][ ( /\ call.op = "embed_text"
          /\ ~ret.raised
          /\ cache_enabled
          /\ call'.op = "embed_text"
          /\ call'.text = call.text
          /\ stats'.total_requests = stats.total_requests + 1 )
        => /\ ~ret'.raised
           /\ ret'.value = ret.value
           /\ model_calls' = model_calls
           /\ stats'.cache_hits = stats.cache_hits + 1
           /\ stats'.cache_misses = stats.cache_misses
      ]_vars

\* the second of two successive embed_text calls on one text has returned,
\* the first having been a miss that called the model
C9_Witness ==
    /\ call.op = "embed_text"
    /\ call.repeat
    /\ cache_enabled
    /\ stats.total_requests = 2
    /\ stats.cache_misses = 1
    /\ stats.cache_hits = 1
    /\ model_calls = 1

\* C10: every entry of what embed_batch returns equals what embed_text returns
\* for that text from the same cache contents.
C10_BatchEqualsSingle ==
    (call.op = "embed_batch" /\ ~ret.raised)
    => \A i \in 1..Len(call.texts) : ret.value[i] = call.single[i]

\* C12: every retrieval that surfaces a Memory appends a MemoryAccess row of
\* kind retrieval and sets Memory.last_accessed to the access time, so that
\* last_accessed is never before created_at and equals the accessed_at of
\* the memory's newest MemoryAccess row.
C12_LastAccessedIsNewestAccess ==
    /\ \A m \in memories :
          /\ m.last_accessed >= m.created_at
          /\ AccessesOf(memory_access, m.id) # {} =>
                m.last_accessed
                  = MaxOf({a.accessed_at : a \in AccessesOf(memory_access, m.id)})
    /\ (op.name = "answer_query" /\ ~op.raised) =>
          \A i \in 1..Min(Len(op.results), 5) :
              IsMemory(op.results[i]) =>
                  \E a \in AccessesOf(memory_access, op.results[i].id) :
                      a.access_type = "retrieval" /\ a.accessed_at = now

\* C13: a failure writing an access-log row, as for a surfaced summary whose
\* id is no Memory id, is swallowed: answer_query still returns its answer
\* and sources.
C13_AccessFailureSwallowed ==
    (op.name = "answer_query" /\ ~op.stream /\ ~op.retrieval_raised
        /\ \E i \in 1..Min(Len(op.results), 5) : ~IsMemory(op.results[i]))
    => ~op.raised

\* C14: when the embedding or the retrieval of one sub-query fails,
\* answer_query does not abort: it answers from the other sub-queries.
C14_SubQueryFailureTolerated ==
    (op.name = "answer_query" /\ op.sub_queries > 1 /\ ~op.access_raised)
    => ~op.raised

\* C15: when the summary of one group cannot be created in
\* consolidate_memories (the language model, the embedding of the summary or
\* the importance computation fails), the summaries of the other groups are
\* still created and committed.
C15_OtherGroupsStillSummarised ==
    [][(op'.name = "consolidate_memories" /\ op'.raised /\ op'.groups >= 2)
          => Cardinality(summaries') >= Cardinality(summaries) + op'.groups - 1]_vars

\* C16: when the preference re-ranking of a search fails, loading the
\* preferences or scoring, the search still answers with its results in the
\* original order and not with an error.
C16_RerankFailureFallsThrough ==
    (op.name = "search_memories" /\ op.rerank_raised)
    => (op.status = 200 /\ op.results = FirstN(op.found, op.top_k))

\* C17: every source extract_sources returns for an answer belongs to a
\* result whose block build_context put into the context for the same list:
\* a result dropped as a duplicate, as empty or for the token budget is never
\* reported, and an index outside the list gives no source.
C17_SourcesWereInContext ==
    (op.name = "build_context") =>
        \A i \in 1..Len(op.sources) :
            /\ op.sources[i].index + 1 \in 1..Len(op.results)
            /\ \E j \in 1..Len(op.blocks) :
                  op.blocks[j].index = op.sources[i].index + 1

IsChunkEvent(event) == event.type = "chunk"

\* the chunks of the chunk events sent so far, in the order sent
ChunksSent == [i \in 1..Len(SelectSeq(sse.events, IsChunkEvent)) |->
                  SelectSeq(sse.events, IsChunkEvent)[i].chunk]

\* C18: in a streaming ask the chunk events go out in the order in which the
\* model generated the chunks, and the terminal event {done, conversation_id,
\* sources} comes after every chunk event and is the last event of the stream.
C18_ChunksInOrderDoneLast ==
    (sse.pc # "none") =>
        /\ ChunksSent = SubSeq(sse.generated, 1, Len(ChunksSent))
        /\ \A i \in 1..Len(sse.events) :
              sse.events[i].type = "done" =>
                  /\ i = Len(sse.events)
                  /\ ChunksSent = sse.generated
                  /\ \A j \in 1..(i - 1) : sse.events[j].type = "chunk"
        /\ sse.pc = "done" =>
              /\ sse.events # <<>>
              /\ sse.events[Len(sse.events)].type = "done"

C18_Witness ==
    /\ sse.pc = "done"
    /\ Len(sse.generated) >= 2
    /\ sse.generated[1] # sse.generated[2]

MessagesOf(conversation_id) ==
    SelectSeq(messages, LAMBDA m : m.conversation_id = conversation_id)

\* C20: the user message and the assistant message of an ask request are
\* committed together, so whatever requests completed, failed or were
\* aborted, every conversation holds its messages in (user, assistant)
\* pairs and never a user message without its assistant message.
C20_MessagesInPairs ==
    \A k \in 1..Len(messages) :
        LET mine == MessagesOf(messages[k].conversation_id)
        IN  /\ Len(mine) % 2 = 0
            /\ \A i \in 1..(Len(mine) \div 2) :
                  /\ mine[2 * i - 1].role = "user"
                  /\ mine[2 * i].role = "assistant"
                  /\ mine[2 * i - 1].request = mine[2 * i].request
            /\ \E c \in conversations : c.id = messages[k].conversation_id

C20_Witness ==
    /\ Len(messages) >= 4
    /\ messages[1].conversation_id = messages[3].conversation_id

\* the text is what the generator hands out when the model is unavailable
IsFailureText(content) ==
    \E i \in 1..Len(content) : content[i].kind \in {"fallback", "error"}

\* C21: when the language model is unavailable during an ask, streaming or
\* not, the fallback or error text goes to the caller and is not stored as
\* an assistant Message.
C21_FailureTextNotPersisted ==
    \A i \in 1..Len(messages) :
        messages[i].role = "assistant" => ~IsFailureText(messages[i].content)

ExampleDense == <<Pair("a", 900), Pair("b", 800)>>

ExampleLexical == <<Pair("b", 10000), Pair("a", 2000)>>

\* C23: weighted_fusion of the dense ranking [(a,0.9),(b,0.8)] and the
\* lexical ranking [(b,10),(a,2)] is [b,a] for alpha 0.5 and [a,b] for
\* alpha 1.0, and ids with equal fused scores stand in the order of their
\* dense similarity, higher first.
C23_WeightedFusionOrder ==
    (op.name = "fusion") =>
        /\ (op.vector_results = ExampleDense /\ op.bm25_results = ExampleLexical) =>
              /\ op.alpha = 500 => IdsOf(op.weighted) = <<"b", "a">>
              /\ op.alpha = 1000 => IdsOf(op.weighted) = <<"a", "b">>
        /\ \A i, j \in 1..Len(op.weighted) :
              (i < j /\ op.weighted[i].score = op.weighted[j].score) =>
                  DictGet(op.vector_results, op.weighted[i].id)
                      >= DictGet(op.vector_results, op.weighted[j].id)

\* C27 (amended): reciprocal_rank_fusion gives each id the sum, over its
\* places in the two lists, of 1 / (k + rank + 1) with k = 60 and rank counted
\* from 0, so the first item of a single list scores 1/61.
C27_RrfScores ==
    (op.name = "fusion") =>
        /\ \A i \in 1..Len(op.rrf) :
              op.rrf[i].score =
                  SumSeq([r \in 1..Len(op.vector_results) |->
                             IF op.vector_results[r].id = op.rrf[i].id
                             THEN RrfUnit(RrfK) \div (RrfK + r) ELSE 0])
                  + SumSeq([r \in 1..Len(op.bm25_results) |->
                               IF op.bm25_results[r].id = op.rrf[i].id
                               THEN RrfUnit(RrfK) \div (RrfK + r) ELSE 0])
        /\ (op.bm25_results = <<>> /\ op.vector_results # <<>>) =>
              op.rrf[1].score * (RrfK + 1) = RrfUnit(RrfK)

C27_Witness ==
    /\ op.name = "fusion"
    /\ op.bm25_results = <<>>
    /\ Len(op.vector_results) = MaxDocs
    /\ op.rrf[1].id = op.vector_results[1].id

\* C27 as stated: the first item of a single list scores 1/60.
C27_FirstOfSingleListScoresOneOverK ==
    (op.name = "fusion" /\ op.bm25_results = <<>> /\ op.vector_results # <<>>) =>
        op.rrf[1].score * RrfK = RrfUnit(RrfK)

\* the type the rules of the claim give, first match winning
RuleType(memory) ==
    IF memory.meta_memory_type # None THEN memory.meta_memory_type
    ELSE IF memory.content.temporal /\ memory.content.personal THEN "episodic"
    ELSE IF memory.content.words < 100 /\ memory.content.personal THEN "episodic"
    ELSE IF memory.content_type = "pdf" \/ memory.content.words > 500 THEN "semantic"
    ELSE "episodic"

\* C24: classify_memory returns a memory type for every memory, the one the
\* rules give: after classify_existing_memories no memory is left
\* unclassified and each carries the type of its first matching rule.
C24_EveryMemoryClassified ==
    (op.name = "classify_existing_memories") =>
        /\ op.failed = {}
        /\ \A m \in memories : ~classify_memory(m).raised
        /\ \A m \in memories :
              classify_memory(m).value = RuleType(m)

\* C26: _cluster_memories partitions its input: every selected memory, also
\* one without a chunk embedding, is in exactly one group; every other member
\* of a group is similar to the group's seed, its first member; and memories
\* that are all pairwise similar form one group.
C26_ClustersPartition ==
    (op.name = "cluster_memories") =>
        /\ \A i \in 1..Len(op.selected) :
              Cardinality({g \in 1..Len(op.groups) :
                              \E k \in 1..Len(op.groups[g]) :
                                  op.groups[g][k] = op.selected[i]}) = 1
        /\ \A g \in 1..Len(op.groups) : \A k \in 2..Len(op.groups[g]) :
              Similar(FirstEmbedding(op.groups[g][1], op.pick)[1],
                      FirstEmbedding(op.groups[g][k], op.pick)[1])
        /\ (\A i, j \in 1..Len(op.selected) :
               /\ FirstEmbedding(op.selected[i], op.pick) # <<>>
               /\ FirstEmbedding(op.selected[j], op.pick) # <<>>
               /\ Similar(FirstEmbedding(op.selected[i], op.pick)[1],
                          FirstEmbedding(op.selected[j], op.pick)[1]))
           => Len(op.groups) = 1

\* C30: with the default threshold 0.1, which also stands in when 0 or None
\* is passed, forget_unimportant_memories deletes no memory: the content-type
\* term alone keeps every importance at or above 0.15 * 0.7 = 0.105,
\* whatever the age and the accesses of the memory.
C30_DefaultThresholdForgetsNothing ==
    [][ (op'.name = "forget_unimportant_memories"
            /\ op'.threshold = min_importance_threshold) =>
           /\ op'.forgotten = {}
           /\ memories' = memories
           /\ \A m \in memories :
                 get_memory_importance(m.id) >= 150 * 700000 ]_vars

\* a sweep with the default threshold has met a memory of the user that is
\* twice the consolidation period old and was never accessed
C30_Witness ==
    /\ op.name = "forget_unimportant_memories"
    /\ op.threshold = min_importance_threshold
    /\ \E m \in memories :
          /\ m.user_id = op.user_id
          /\ m.created_at + 2 * consolidation_threshold_days < now
          /\ AccessesOf(memory_access, m.id) = {}

\* C22: during an ask the web search adapter is invoked only when enable_web
\* is set and the local retrieval produced fewer than 2 hits; otherwise no
\* web search runs and no WebSource row is written.
C22_WebSearchOnlyBelowTwoHits ==
    /\ \A i \in 1..Len(web_calls) :
          web_calls[i].enable_web /\ web_calls[i].local_hits < 2
    /\ (op.name = "search_web" /\ op.cached) => Len(op.local_results) < 2

\* C28: the lexical stage of a hybrid search ranks and returns only chunk ids
\* of its own request's candidates, also when another search on the shared
\* engine is suspended or has fitted the ranker before.
C28_LexicalStageOwnCandidates ==
    op.name = "hybrid_search" =>
        /\ \A i \in 1..Len(op.bm25_results) :
              InSeq(op.candidates, op.bm25_results[i].id)
        /\ \A i \in 1..Len(op.local_results) :
              InSeq(op.candidates, op.local_results[i].id)
        /\ op.candidates # <<>> =>
              \A i \in 1..Len(op.corpus_ids) :
                  InSeq(op.candidates, op.corpus_ids[i])

\* a search has ranked a candidate lexically while the search of another
\* user, with other candidates, is suspended in its dense stage
C28_Witness ==
    /\ op.name = "hybrid_search"
    /\ op.bm25_results # <<>>
    /\ \E t \in Tasks :
          /\ t # op.task
          /\ searches[t].pc = "vector"
          /\ searches[t].user_id # op.user_id
          /\ searches[t].vector_results # <<>>
          /\ \A i \in 1..Len(searches[t].vector_results) :
                ~InSeq(op.candidates, searches[t].vector_results[i].id)

\* C25: at most one consolidation of a user runs at a time: when a call of
\* consolidate_memories commits, no call that overlapped it (one that
\* committed between this call's selection and its commit) has created a
\* summary that references a memory this call selected.
C25_OverlappingRunsShareNoMemory ==
    (op.name = "consolidate_commit" /\ ~op.raised) =>
        \A s \in summaries :
            (s.user_id = op.user_id /\ s.id \notin op.seen
                 /\ s.id \notin op.created) =>
                \A i \in 1..Len(s.source_memory_ids) :
                    s.source_memory_ids[i] \notin op.selected

\* C29: an ask request of user U that names a conversation reads history
\* from it and appends Messages to it only if the conversation belongs to U.
C29_AskStaysInOwnConversation ==
    /\ (op.name \in {"ask_question", "ask_question_stream"}
            /\ op.conversation_id # <<>> /\ op.history # <<>>) =>
           \E c \in conversations :
               c.id = op.conversation_id[1] /\ c.user_id = op.user_id
    /\ (op.name = "ask_question" /\ op.status = 200
            /\ op.conversation_id # <<>>) =>
           \E c \in conversations :
               c.id = op.conversation_id[1] /\ c.user_id = op.user_id
    /\ (sse.pc \in {"ending", "done"} /\ sse.conversation_id # <<>>) =>
           \E c \in conversations :
               c.id = sse.conversation_id[1] /\ c.user_id = sse.user_id

====
